---- MODULE Spec2Model ----
(***************************************************************************)
(* Model of the ELF reader of objutils (src/src/ElfIO.c, with              *)
(* ElfIO_GetSymbol from the later revision of the same file).              *)
(*                                                                         *)
(* 16-bit values are naturals below 65536.  32-bit values are pairs        *)
(* <<HIWORD, LOWORD>> of 16-bit values, so that the whole uint32_t range   *)
(* is representable.  Files are sequences of bytes; memory holds the       *)
(* values the host reads from those bytes in its own byte order.           *)
(* Assertions are compiled in (no build file defines NDEBUG): a failed     *)
(* assert stops the program.                                               *)
(***************************************************************************)
EXTENDS Integers, Sequences, FiniteSets, TLC

(***************************************************************************)
(* StdTypes.h: byte and word macros.                                       *)
(***************************************************************************)
LOBYTE(w) == (w % 65536) % 256

HIBYTE(w) == ((w % 65536) \div 256) % 256

LOWORD(dw) == dw[2] % 65536

HIWORD(dw) == dw[1] % 65536

MAKEWORD(h, l) == (h % 256) * 256 + (l % 256)

MAKEDWORD(h, l) == <<h % 65536, l % 65536>>

(***************************************************************************)
(* ElfIO.c: byte order reversal.                                           *)
(***************************************************************************)
ElfIo_Convert16U(w) == MAKEWORD(LOBYTE(w), HIBYTE(w))

\* A faulty variant of ElfIo_Convert32U that exchanges the two words and
\* leaves the bytes of each in place.
Convert32UWordsOnly(dw) == MAKEDWORD(LOWORD(dw), HIWORD(dw))

ElfIo_Convert32U(dw) ==
    MAKEDWORD(MAKEWORD(LOBYTE(LOWORD(dw)), HIBYTE(LOWORD(dw))),
              MAKEWORD(LOBYTE(HIWORD(dw)), HIBYTE(HIWORD(dw))))

\* A 16-bit object widened to uint32_t, and a uint32_t stored into a 16-bit
\* object (the usual arithmetic conversions of C).
Widen16(w) == <<0, w>>

Narrow16(dw) == LOWORD(dw)

(***************************************************************************)
(* Enumerations of ElfIO.h.                                                *)
(***************************************************************************)
ELFIO_INVALID_MODE == 0
ELFIO_READ == 1
ELFIO_WRITE == 2

ELFIO_MAX_FILENAME_LEN == 255

\* sizeof(ElfIo_Struct), the value the guard field is set to.
SizeofElfIoStruct == 64

ELF_HEADER_SIZE == 52
ELF_PHDR_SIZE == 32
ELF_SECTION_SIZE == 40
ELF_SYM_TABLE_SIZE == 16

ELFDATA2LSB == 1
ELFDATA2MSB == 2

SHT_NOBITS == 8

SHT_SYMTAB == 2

SHT_DYNSYM == 11

\* Pointer values that are no heap block: NULL, and an arbitrary address.
NULL == 0
WILD == -1

Hosts == {"ELF_LITTLE_ENDIAN", "ELF_BIG_ENDIAN"}

(***************************************************************************)
(* How a host reads a 2- or 4-byte object from bytes in file order.        *)
(***************************************************************************)
Load16(b, order) ==
    IF order = "ELF_BIG_ENDIAN" THEN b[1] * 256 + b[2] ELSE b[2] * 256 + b[1]

Load32(b, order) ==
    IF order = "ELF_BIG_ENDIAN"
    THEN <<b[1] * 256 + b[2], b[3] * 256 + b[4]>>
    ELSE <<b[4] * 256 + b[3], b[2] * 256 + b[1]>>

\* The bytes a producer of the given byte order writes for a value.
Store16(w, order) ==
    IF order = "ELF_BIG_ENDIAN" THEN <<HIBYTE(w), LOBYTE(w)>> ELSE <<LOBYTE(w), HIBYTE(w)>>

Store32(dw, order) ==
    IF order = "ELF_BIG_ENDIAN"
    THEN Store16(dw[1], order) \o Store16(dw[2], order)
    ELSE Store16(dw[2], order) \o Store16(dw[1], order)

(***************************************************************************)
(* File images.  A file is laid out as the packed structures of Elf.h:     *)
(* Elf32_Ehdr (52 bytes), Elf32_Phdr (32), Elf32_Shdr (40), Elf32_Sym (16).*)
(***************************************************************************)
Ident(mag1, data) == <<127, mag1, 76, 70, 1, data, 1, 0, 0, 0, 0, 0, 0, 0, 0, 0>>

EhdrBytes(ident, h, order) ==
    ident \o Store16(h.e_type, order) \o Store16(h.e_machine, order)
          \o Store32(h.e_version, order) \o Store32(h.e_entry, order)
          \o Store32(h.e_phoff, order) \o Store32(h.e_shoff, order)
          \o Store32(h.e_flags, order) \o Store16(h.e_ehsize, order)
          \o Store16(h.e_phentsize, order) \o Store16(h.e_phnum, order)
          \o Store16(h.e_shentsize, order) \o Store16(h.e_shnum, order)
          \o Store16(h.e_shstrndx, order)

PhdrBytes(p, order) ==
    Store32(p.p_type, order) \o Store32(p.p_offset, order) \o Store32(p.p_vaddr, order)
      \o Store32(p.p_paddr, order) \o Store32(p.p_filesz, order) \o Store32(p.p_memsz, order)
      \o Store32(p.p_flags, order) \o Store32(p.p_align, order)

ShdrBytes(s, order) ==
    Store32(s.sh_name, order) \o Store32(s.sh_type, order) \o Store32(s.sh_flags, order)
      \o Store32(s.sh_addr, order) \o Store32(s.sh_offset, order) \o Store32(s.sh_size, order)
      \o Store32(s.sh_link, order) \o Store32(s.sh_info, order)
      \o Store32(s.sh_addralign, order) \o Store32(s.sh_entsize, order)

SymBytes(y, order) ==
    Store32(y.st_name, order) \o Store32(y.st_value, order) \o Store32(y.st_size, order)
      \o <<y.st_info, y.st_other>> \o Store16(y.st_shndx, order)

BaseEhdr ==
    [e_type |-> 2, e_machine |-> 20, e_version |-> <<0, 1>>, e_entry |-> <<258, 772>>,
     e_phoff |-> <<0, 52>>, e_shoff |-> <<0, 84>>, e_flags |-> <<32768, 1>>,
     e_ehsize |-> 52, e_phentsize |-> 32, e_phnum |-> 1, e_shentsize |-> 40,
     e_shnum |-> 4, e_shstrndx |-> 2]

BasePhdr ==
    [p_type |-> <<0, 1>>, p_offset |-> <<0, 244>>, p_vaddr |-> <<2048, 16>>,
     p_paddr |-> <<2048, 16>>, p_filesz |-> <<0, 40>>, p_memsz |-> <<0, 48>>,
     p_flags |-> <<0, 5>>, p_align |-> <<0, 4>>]

ZeroShdr ==
    [sh_name |-> <<0, 0>>, sh_type |-> <<0, 0>>, sh_flags |-> <<0, 0>>, sh_addr |-> <<0, 0>>,
     sh_offset |-> <<0, 0>>, sh_size |-> <<0, 0>>, sh_link |-> <<0, 0>>, sh_info |-> <<0, 0>>,
     sh_addralign |-> <<0, 0>>, sh_entsize |-> <<0, 0>>]

\* Section 1: a symbol table of two entries; 2: its string table; 3: .bss.
BaseShdrs(strtabOffset) ==
    << ZeroShdr,
       [ZeroShdr EXCEPT !.sh_name = <<0, 1>>, !.sh_type = <<0, 2>>, !.sh_offset = <<0, 244>>,
                        !.sh_size = <<0, 32>>, !.sh_link = <<0, 2>>, !.sh_info = <<0, 1>>,
                        !.sh_addralign = <<0, 4>>, !.sh_entsize = <<0, 16>>],
       [ZeroShdr EXCEPT !.sh_name = <<0, 3>>, !.sh_type = <<0, 3>>,
                        !.sh_offset = strtabOffset, !.sh_size = <<0, 8>>,
                        !.sh_addralign = <<0, 1>>],
       [ZeroShdr EXCEPT !.sh_name = <<0, 6>>, !.sh_type = <<0, 8>>, !.sh_flags = <<0, 3>>,
                        !.sh_addr = <<8192, 16>>, !.sh_offset = <<0, 284>>,
                        !.sh_size = <<0, 8>>, !.sh_addralign = <<0, 4>>] >>

BaseSyms ==
    << [st_name |-> <<0, 0>>, st_value |-> <<0, 0>>, st_size |-> <<0, 0>>,
        st_info |-> 0, st_other |-> 0, st_shndx |-> 0],
       [st_name |-> <<0, 1>>, st_value |-> <<2048, 288>>, st_size |-> <<0, 4>>,
        st_info |-> 18, st_other |-> 0, st_shndx |-> 65521] >>

StrtabBytes == <<0, 97, 0, 98, 99, 0, 100, 0>>

ElfBytes(ident, h, strtabOffset, order) ==
    EhdrBytes(ident, h, order) \o PhdrBytes(BasePhdr, order)
      \o ShdrBytes(BaseShdrs(strtabOffset)[1], order)
      \o ShdrBytes(BaseShdrs(strtabOffset)[2], order)
      \o ShdrBytes(BaseShdrs(strtabOffset)[3], order)
      \o ShdrBytes(BaseShdrs(strtabOffset)[4], order)
      \o SymBytes(BaseSyms[1], order) \o SymBytes(BaseSyms[2], order)
      \o StrtabBytes

FileLE == ElfBytes(Ident(69, ELFDATA2LSB), BaseEhdr, <<0, 276>>, "ELF_LITTLE_ENDIAN")

FileBE == ElfBytes(Ident(69, ELFDATA2MSB), BaseEhdr, <<0, 276>>, "ELF_BIG_ENDIAN")

FileShort == SubSeq(FileLE, 1, 20)

FileBadMagic == ElfBytes(Ident(88, ELFDATA2MSB), BaseEhdr, <<0, 276>>, "ELF_BIG_ENDIAN")

FileBadEnc == ElfBytes(Ident(69, 3), BaseEhdr, <<0, 276>>, "ELF_LITTLE_ENDIAN")

\* e_phentsize is 0x2000: a host of the other byte order reads 0x0020 = 32.
FilePhEnt ==
    ElfBytes(Ident(69, ELFDATA2MSB), [BaseEhdr EXCEPT !.e_phentsize = 8192],
             <<0, 276>>, "ELF_BIG_ENDIAN")

FileShEnt ==
    ElfBytes(Ident(69, ELFDATA2LSB), [BaseEhdr EXCEPT !.e_shentsize = 44],
             <<0, 276>>, "ELF_LITTLE_ENDIAN")

FileNoTables ==
    EhdrBytes(Ident(69, ELFDATA2MSB),
              [BaseEhdr EXCEPT !.e_phnum = 0, !.e_shnum = 0, !.e_phoff = <<0, 0>>,
                               !.e_shoff = <<0, 0>>, !.e_shstrndx = 0],
              "ELF_BIG_ENDIAN")

FileTruncData == SubSeq(FileBE, 1, 280)

FileTruncTab == SubSeq(FileLE, 1, 150)

\* The string table lies at an offset that does not fit a 32-bit long.
FileFarSeek ==
    ElfBytes(Ident(69, ELFDATA2LSB), BaseEhdr, <<32768, 276>>, "ELF_LITTLE_ENDIAN")

\* An image laid out like ElfBytes whose section header table is sh.
ElfBytesWith(ident, h, sh, order) ==
    EhdrBytes(ident, h, order) \o PhdrBytes(BasePhdr, order)
      \o ShdrBytes(sh[1], order) \o ShdrBytes(sh[2], order)
      \o ShdrBytes(sh[3], order) \o ShdrBytes(sh[4], order)
      \o SymBytes(BaseSyms[1], order) \o SymBytes(BaseSyms[2], order)
      \o StrtabBytes

\* Section 1 is a dynamic symbol table of 40 bytes: two symbols and half of
\* a third.
FileDynsym ==
    ElfBytesWith(Ident(69, ELFDATA2MSB), BaseEhdr,
                 [BaseShdrs(<<0, 276>>) EXCEPT ![2].sh_type = <<0, SHT_DYNSYM>>,
                                               ![2].sh_size = <<0, 40>>],
                 "ELF_BIG_ENDIAN")

\* The symbol table declares entries of 8 bytes.
FileSymEnt ==
    ElfBytesWith(Ident(69, ELFDATA2LSB), BaseEhdr,
                 [BaseShdrs(<<0, 276>>) EXCEPT ![2].sh_entsize = <<0, 8>>],
                 "ELF_LITTLE_ENDIAN")

\* The named files of the file system the reader is run on.
FileBytes(f) ==
    CASE f = "le" -> FileLE
      [] f = "be" -> FileBE
      [] f = "short" -> FileShort
      [] f = "badmagic" -> FileBadMagic
      [] f = "badenc" -> FileBadEnc
      [] f = "phent" -> FilePhEnt
      [] f = "shent" -> FileShEnt
      [] f = "notables" -> FileNoTables
      [] f = "truncdata" -> FileTruncData
      [] f = "trunctab" -> FileTruncTab
      [] f = "farseek" -> FileFarSeek
      [] f = "dynsym" -> FileDynsym
      [] f = "syment" -> FileSymEnt
      [] OTHER -> <<>>

Files ==
    {"le", "be", "short", "badmagic", "badenc", "phent", "shent", "notables",
     "truncdata", "trunctab", "farseek", "dynsym", "syment"}

\* A name no file of the file system has: fopen(name, "rb") fails.
NoFile == "nofile"

\* The name given to fopen(name, "wb"); it is none of the files that are read.
OutFile == "out"

(***************************************************************************)
(* Bounds of the model.                                                    *)
(***************************************************************************)
\* Heap blocks and streams the run may allocate in total.
MaxBlocks == 10

\* File name lengths tried: the longest accepted one and the shortest one that
\* is too long.
NameLens == {ELFIO_MAX_FILENAME_LEN, ELFIO_MAX_FILENAME_LEN + 1}

\* Mode arguments tried: the three enumerators and one value outside them.
Modes == {ELFIO_INVALID_MODE, ELFIO_READ, ELFIO_WRITE, 3}

(***************************************************************************)
(* Uninitialised memory.  A block that malloc returned and nobody wrote    *)
(* holds [uninit |-> TRUE]; reading it yields any of the Garbage values.   *)
(***************************************************************************)
Uninit == [uninit |-> TRUE]

IsUninit(x) == "uninit" \in DOMAIN x

FirstGarbageEhdr == [BaseEhdr EXCEPT !.e_phnum = 0, !.e_shnum = 0] @@ [e_ident |-> Ident(0, 0)]

GarbageEhdrs ==
    { FirstGarbageEhdr,
      [BaseEhdr EXCEPT !.e_phnum = 1, !.e_shnum = 0] @@ [e_ident |-> Ident(0, 0)],
      [BaseEhdr EXCEPT !.e_phnum = 1, !.e_phentsize = 0] @@ [e_ident |-> Ident(0, 0)] }

FirstGarbageShdr ==
    [ZeroShdr EXCEPT !.sh_type = <<0, 1>>, !.sh_offset = <<0, 60>>, !.sh_size = <<0, 4>>]

GarbageShdrs ==
    { FirstGarbageShdr,
      [ZeroShdr EXCEPT !.sh_type = <<0, 1>>, !.sh_offset = <<0, 4096>>, !.sh_size = <<0, 2>>] }

\* What the ElfIo_Struct of the caller (an automatic variable) may hold
\* before the first ElfIo_Init.
InitialMemories ==
    { [stream |-> NULL, file_name |-> NULL, file_opened |-> FALSE,
       mode |-> ELFIO_INVALID_MODE, header |-> NULL, program_headers |-> NULL,
       section_headers |-> NULL, sections |-> NULL, guard |-> 0,
       encoding |-> "ELF_INVALID_ENCODING"],
      [stream |-> WILD, file_name |-> WILD, file_opened |-> TRUE,
       mode |-> ELFIO_READ, header |-> WILD, program_headers |-> WILD,
       section_headers |-> WILD, sections |-> WILD, guard |-> SizeofElfIoStruct,
       encoding |-> "ELF_BIG_ENDIAN"],
      [stream |-> WILD, file_name |-> WILD, file_opened |-> FALSE,
       mode |-> ELFIO_READ, header |-> WILD, program_headers |-> WILD,
       section_headers |-> WILD, sections |-> WILD, guard |-> SizeofElfIoStruct,
       encoding |-> "ELF_LITTLE_ENDIAN"] }

(***************************************************************************)
(* State.                                                                  *)
(***************************************************************************)
VARIABLES
    host,           \* byte order of the host, ElfIo_CheckHostEndianess()
    str,            \* the caller's ElfIo_Struct
    hdr,            \* *str.header
    phdrs,          \* str.program_headers[0 .. e_phnum-1]
    shdrs,          \* str.section_headers[0 .. e_shnum-1]
    sects,          \* str.sections[0 .. e_shnum-1], with the bytes data points to
    heap,           \* blocks malloc returned and free has not released
    streams,        \* streams fopen returned and fclose has not closed
    nextBlock,      \* next address malloc / fopen hands out
    fd,             \* file and position of the stream str.stream
    op,             \* the operation called last
    ret,            \* its return value
    fault,          \* "none", "assert" (a failed assert stopped the program),
                    \* "undefined" (the call dereferenced or freed an invalid pointer)
    io,             \* fseek / fread calls the last operation issued
    args,           \* the arguments of the last operation
    opened,         \* an ElfIo_Init returned ELFIO_E_OK and no ElfIo_Deinit has since
    shtRead,        \* ElfIo_ReadSectionHeaderTable returned ELFIO_E_OK since that ElfIo_Init
    initBase,       \* value of nextBlock when the last ElfIo_Init got past its checks
    hdrConversions, \* executions of the header conversion block since the header was read
    sym,            \* value the last operation returned, if it was ElfIO_GetSymbol
    listing,        \* sections visited, symbols read and names looked up by the last operation
    txt,            \* the text file being scanned: TxtIo_Struct, its stream and line buffer
    s19,            \* the static variables of S19Io_LineScanning and what it reported
    cs,             \* argument and result of S19IO_CalculateChecksum
    fp,             \* the FormatParser under construction and what parse() built
    cv,             \* argument and result of ElfIo_Convert16U / ElfIo_Convert32U
    rc,             \* a record, the line it was encoded to and what decoding gave
    img,            \* an Image: its sections, and the result of the last operation on it
    nm,             \* a field value and the entry of the name table looked up for it
    utl             \* argument and result of the bit routines of Utl.c

\* The state of the ELF reader.
elfVars ==
    <<host, str, hdr, phdrs, shdrs, sects, heap, streams, nextBlock, fd, op, ret, fault,
      io, args, opened, shtRead, initBase, hdrConversions, sym, listing>>

\* The state of the other modules of the library.
libVars == <<txt, s19, cs, fp, cv>>

\* The state of the record codec and the address-space model, and of the
\* callers of the name tables and the bit routines.
extVars == <<rc, img, nm, utl>>

vars == <<elfVars, libVars, extVars>>

\* Nothing listed: the value of listing after an operation that lists nothing.
NoListing == [visited |-> {}, reads |-> {}, names |-> {}]

NoSym ==
    [st_name |-> <<0, 0>>, st_value |-> <<0, 0>>, st_size |-> <<0, 0>>,
     st_info |-> 0, st_other |-> 0, st_shndx |-> 0]

\* Arguments of an operation that takes none but str.
NoArgs == [len |-> 0, mode |-> ELFIO_INVALID_MODE, file |-> NoFile, section |-> 0, idx |-> 0]

ElfInit ==
    /\ host \in Hosts
    /\ str \in InitialMemories
    /\ hdr = Uninit
    /\ phdrs = <<>>
    /\ shdrs = <<>>
    /\ sects = <<>>
    /\ heap = {}
    /\ streams = {}
    /\ nextBlock = 1
    /\ fd = [file |-> NoFile, pos |-> 0]
    /\ op = "none"
    /\ ret = "none"
    /\ fault = "none"
    /\ io = {}
    /\ args = NoArgs
    /\ opened = FALSE
    /\ shtRead = FALSE
    /\ initBase = 1
    /\ hdrConversions = 0
    /\ sym = NoSym
    /\ listing = NoListing

(***************************************************************************)
(* The state of the text file reader (TextFile.c) and of the S-record      *)
(* line scanner (S19IO.c) before their first call.                         *)
(***************************************************************************)
TXTIO_INVALID_MODE == 0
TXTIO_READ == 1
TXTIO_WRITE == 2
TXTIO_MAX_FILENAME_LEN == 255
SizeofTxtIoStruct == 24

\* A line buffer: the characters before the line end, and whether a newline
\* follows them.  static char buf[] of TxtIo_ScanFile starts all zero.
NoLine == [text |-> <<>>, nl |-> FALSE]

\* What the TxtIo_Struct of the caller (an automatic variable) may hold
\* before the first TxtIo_Init.
TxtInitialMemories ==
    { [stream |-> NULL, file_opened |-> FALSE, guard |-> 0, mode |-> TXTIO_INVALID_MODE],
      [stream |-> WILD, file_opened |-> TRUE, guard |-> SizeofTxtIoStruct,
       mode |-> TXTIO_READ] }

\* str: the caller's TxtIo_Struct; file, pos, eof: the file the stream
\* str.stream has open, the lines read from it and its end-of-file indicator;
\* buf: the static line buffer; pc: "idle", or "loop" inside TxtIo_ScanFile;
\* calls, rets: the lines handed to the callout in the running or last scan and
\* what it returned; scans: the scans begun; op, ret, fault as for the ELF reader;
\* err: reading from the stream fails from now on (its error indicator).
TxtStart(memory) ==
    [str |-> memory, file |-> NoFile, pos |-> 0, eof |-> FALSE, err |-> FALSE, buf |-> NoLine,
     pc |-> "idle", calls |-> <<>>, rets |-> <<>>, scans |-> 0,
     op |-> "none", ret |-> "none", fault |-> "none"]

\* static state=START; static lineNumber=0; reports: the unexpected record
\* types reported in the running or last scan, [line, type, call]: the
\* arguments given to fprintf and the invocation of the scan that reported.
S19Start == [state |-> "START", lineNumber |-> 0, reports |-> <<>>]

\* S19IO_CalculateChecksum has not been called.  data: the bytes it is or
\* was given; done, sum: it has returned, and what; orig, origSum: the bytes
\* and the result before one bit of data was flipped; flip: <<index, bit>> of
\* that bit.
CsStart(data) ==
    [data |-> data, sum |-> 0, done |-> FALSE, orig |-> <<>>, origSum |-> 0, flip |-> <<>>]

\* No FormatParser has been constructed.  format: the argument of the
\* constructor; thrown: the exception it threw; constructed: the object
\* exists; status: "none", "parsed" (parse() returned) or "terminate" (an
\* exception left the noexcept parse()); groups, fragments: the arguments and
\* results of translate_format in the order of the calls.
FpStart ==
    [format |-> <<>>, called |-> FALSE, thrown |-> "none", constructed |-> FALSE,
     status |-> "none", groups |-> <<>>, fragments |-> <<>>]

\* A caller of the conversion routines: the width of the value in bits, the
\* value it started with, the value it holds, and how often it has passed the
\* value through the routine.
CvStart(width, input) == [width |-> width, input |-> input, value |-> input, count |-> 0]

\* A record or an image handed to the codec: what is encoded (record, or the
\* sections of an image), the format, the line or lines written, and what
\* reading them back gave.
RcStart(kind, format, record, sections) ==
    [kind |-> kind, format |-> format, record |-> record, sections |-> sections,
     line |-> <<>>, decoded |-> [error |-> "none"], lines |-> <<>>,
     loaded |-> [sections |-> <<>>, error |-> "none"], op |-> "none"]

RcIdle == RcStart("none", [type |-> 1, width |-> 2], [type |-> 1, address |-> 0, data |-> <<>>], <<>>)

\* An empty Image: its sections, the insertions so far and whether all of
\* them asked to join, and the last operation: its arguments, the sections
\* before it, its error and the value it returned.
ImgStart(sections) ==
    [sections |-> sections, count |-> 0, allJoin |-> TRUE, op |-> "none", arg |-> <<>>,
     before |-> <<>>, error |-> "none", value |-> <<>>]

ImgIdle == ImgStart(<<>>)

\* A program about to look up names: the routine it is going to call and the
\* field values it passes, the routine that has returned, and the reads of
\* tables of names the call made, in order.
NmStart(routine, fields) ==
    [call |-> routine, args |-> fields, op |-> "none", lookups |-> <<>>]

NmIdle == NmStart("none", <<>>)

\* A program about to call a bit routine of Utl.c: the routine, the word w
\* and the bit number num it passes, the routine that has returned, the
\* index at which the call read PowerOfTwoTab16 (-1: the table was not
\* read), the value returned and the number of passes through the loop.
UtlStart(routine, w, num) ==
    [call |-> routine, w |-> w, num |-> num, op |-> "none", index |-> -1, result |-> 0,
     loops |-> 0]

UtlIdle == UtlStart("none", 0, 0)

\* No record, no section, no lookup and no bit routine yet.
ExtIdle ==
    /\ rc = RcIdle
    /\ img = ImgIdle
    /\ nm = NmIdle
    /\ utl = UtlIdle

\* The other modules of the library are not in use.
LibIdle ==
    /\ txt = TxtStart([stream |-> NULL, file_opened |-> FALSE, guard |-> 0,
                       mode |-> TXTIO_INVALID_MODE])
    /\ s19 = S19Start
    /\ cs = CsStart(<<>>)
    /\ fp = FpStart
    /\ cv = CvStart(16, 0)

\* The program of src/src/yol-elf-info.c before its first call.
Init == ElfInit /\ LibIdle /\ ExtIdle

(***************************************************************************)
(* Reading structures from the stream: fread copies the bytes and the host *)
(* reads each field in its own byte order.  off is the 0-based offset of   *)
(* the structure in the file.                                              *)
(***************************************************************************)
F16(b, off, order) == Load16(<<b[off + 1], b[off + 2]>>, order)

F32(b, off, order) == Load32(<<b[off + 1], b[off + 2], b[off + 3], b[off + 4]>>, order)

ReadEhdr(b, order) ==
    [e_ident |-> SubSeq(b, 1, 16),
     e_type |-> F16(b, 16, order), e_machine |-> F16(b, 18, order),
     e_version |-> F32(b, 20, order), e_entry |-> F32(b, 24, order),
     e_phoff |-> F32(b, 28, order), e_shoff |-> F32(b, 32, order),
     e_flags |-> F32(b, 36, order), e_ehsize |-> F16(b, 40, order),
     e_phentsize |-> F16(b, 42, order), e_phnum |-> F16(b, 44, order),
     e_shentsize |-> F16(b, 46, order), e_shnum |-> F16(b, 48, order),
     e_shstrndx |-> F16(b, 50, order)]

ReadPhdr(b, off, order) ==
    [p_type |-> F32(b, off, order), p_offset |-> F32(b, off + 4, order),
     p_vaddr |-> F32(b, off + 8, order), p_paddr |-> F32(b, off + 12, order),
     p_filesz |-> F32(b, off + 16, order), p_memsz |-> F32(b, off + 20, order),
     p_flags |-> F32(b, off + 24, order), p_align |-> F32(b, off + 28, order)]

ReadShdr(b, off, order) ==
    [sh_name |-> F32(b, off, order), sh_type |-> F32(b, off + 4, order),
     sh_flags |-> F32(b, off + 8, order), sh_addr |-> F32(b, off + 12, order),
     sh_offset |-> F32(b, off + 16, order), sh_size |-> F32(b, off + 20, order),
     sh_link |-> F32(b, off + 24, order), sh_info |-> F32(b, off + 28, order),
     sh_addralign |-> F32(b, off + 32, order), sh_entsize |-> F32(b, off + 36, order)]

ReadSym(b, off, order) ==
    [st_name |-> F32(b, off, order), st_value |-> F32(b, off + 4, order),
     st_size |-> F32(b, off + 8, order), st_info |-> b[off + 13], st_other |-> b[off + 14],
     st_shndx |-> F16(b, off + 14, order)]

(***************************************************************************)
(* ElfIo_Init.                                                             *)
(***************************************************************************)
\* A faulty variant of ELF_MAGIC_VALID that accepts every header.
MagicAlwaysValid(h) == TRUE

ELF_MAGIC_VALID(h) ==
    /\ h.e_ident[1] = 127
    /\ h.e_ident[2] = 69
    /\ h.e_ident[3] = 76
    /\ h.e_ident[4] = 70

ELF_DATA(h) == h.e_ident[6]

\* switch (ELF_DATA(str->header)) of ElfIo_Init.
EncodingOf(h) ==
    CASE ELF_DATA(h) = ELFDATA2LSB -> "ELF_LITTLE_ENDIAN"
      [] ELF_DATA(h) = ELFDATA2MSB -> "ELF_BIG_ENDIAN"
      [] OTHER -> "ELF_INVALID_ENCODING"

\* if (ElfIo_CheckHostEndianess()!=str->encoding)
NeedsConversion(hostOrder, encoding) == hostOrder # encoding

\* A faulty variant of ConvertEhdr that reverses e_phoff a second time.
ConvertEhdrTwice(h) ==
    [h EXCEPT !.e_phoff = ElfIo_Convert32U(ElfIo_Convert32U(@)),
              !.e_type = ElfIo_Convert16U(@), !.e_machine = ElfIo_Convert16U(@),
              !.e_version = ElfIo_Convert32U(@), !.e_entry = ElfIo_Convert32U(@),
              !.e_shoff = ElfIo_Convert32U(@), !.e_flags = ElfIo_Convert32U(@),
              !.e_ehsize = ElfIo_Convert16U(@), !.e_phentsize = ElfIo_Convert16U(@),
              !.e_phnum = ElfIo_Convert16U(@), !.e_shentsize = ElfIo_Convert16U(@),
              !.e_shstrndx = ElfIo_Convert16U(@), !.e_shnum = ElfIo_Convert16U(@)]

\* The conversion block of ElfIo_Init.
ConvertEhdr(h) ==
    [h EXCEPT !.e_type = ElfIo_Convert16U(@), !.e_machine = ElfIo_Convert16U(@),
              !.e_version = ElfIo_Convert32U(@), !.e_entry = ElfIo_Convert32U(@),
              !.e_phoff = ElfIo_Convert32U(@), !.e_shoff = ElfIo_Convert32U(@),
              !.e_flags = ElfIo_Convert32U(@), !.e_ehsize = ElfIo_Convert16U(@),
              !.e_phentsize = ElfIo_Convert16U(@), !.e_phnum = ElfIo_Convert16U(@),
              !.e_shentsize = ElfIo_Convert16U(@), !.e_shstrndx = ElfIo_Convert16U(@),
              !.e_shnum = ElfIo_Convert16U(@)]

\* A faulty variant of PhEntSizeOk: the assertion left out.
EntSizeUnchecked(h) == TRUE

\* assert(ELF_PHDR_SIZE==ELF_PHENTSIZE(str->header)) and
\* assert(ELF_SECTION_SIZE==ELF_SHENTSIZE(str->header)).
PhEntSizeOk(h) == h.e_phentsize = ELF_PHDR_SIZE

ShEntSizeOk(h) == h.e_shentsize = ELF_SECTION_SIZE

\* A zeroed MemorySection.
ZeroSection == [data |-> NULL, length |-> <<0, 0>>, bytes |-> <<>>]

\* Lines 238-254: allocation of the tables for header h; first is the first
\* free address.  The result holds the new pointer fields and table contents.
AllocTables(s, h, first) ==
    LET wantPh == h.e_phnum > 0
        wantSh == h.e_shnum > 0
        phFail == wantPh /\ ~PhEntSizeOk(h)
        shFail == wantSh /\ ~ShEntSizeOk(h)
        shFirst == IF wantPh THEN first + 1 ELSE first
    IN  [fault |-> IF phFail \/ shFail THEN "assert" ELSE "none",
         str |-> [s EXCEPT
                    !.program_headers = IF wantPh /\ ~phFail THEN first ELSE @,
                    !.section_headers = IF wantSh /\ ~phFail /\ ~shFail THEN shFirst ELSE @,
                    !.sections = IF wantSh /\ ~phFail /\ ~shFail THEN shFirst + 1 ELSE @],
         blocks |-> (IF wantPh /\ ~phFail THEN {first} ELSE {})
                      \cup (IF wantSh /\ ~phFail /\ ~shFail THEN {shFirst, shFirst + 1} ELSE {}),
         phdrs |-> IF wantPh /\ ~phFail THEN [i \in 1..h.e_phnum |-> Uninit] ELSE phdrs,
         shdrs |-> IF wantSh /\ ~phFail /\ ~shFail
                   THEN [i \in 1..h.e_shnum |-> Uninit] ELSE shdrs,
         sects |-> IF wantSh /\ ~phFail /\ ~shFail
                   THEN [i \in 1..h.e_shnum |-> ZeroSection] ELSE sects]

\* A faulty variant of InitPrecheck with the three checks in reverse order.
InitPrecheckLimitFirst(s, len, mode) ==
    IF len > ELFIO_MAX_FILENAME_LEN THEN "ELFIO_E_LIMIT"
    ELSE IF ~(mode = ELFIO_READ \/ mode = ELFIO_WRITE) THEN "ELFIO_E_VALUE"
    ELSE IF s.guard = SizeofElfIoStruct /\ s.file_opened = TRUE THEN "ELFIO_E_STATE"
    ELSE "pass"

\* Lines 156-166: the precondition checks, in the order of the code.
\* "pass" means that none of them returned.
InitPrecheck(s, len, mode) ==
    IF s.guard = SizeofElfIoStruct /\ s.file_opened = TRUE THEN "ELFIO_E_STATE"
    ELSE IF ~(mode = ELFIO_READ \/ mode = ELFIO_WRITE) THEN "ELFIO_E_VALUE"
    ELSE IF len > ELFIO_MAX_FILENAME_LEN THEN "ELFIO_E_LIMIT"
    ELSE "pass"

\* Lines 197-236 for the bytes b of the file: the status the header read ends
\* with ("pass": go on to the tables), the header as left in memory, the
\* encoding field and the number of runs of the conversion block.
ReadHeader(b, hostOrder, oldEncoding) ==
    IF Len(b) < ELF_HEADER_SIZE
    THEN [status |-> "ELFIO_E_FILEIO", hdr |-> Uninit, encoding |-> oldEncoding, conv |-> 0]
    ELSE LET raw == ReadEhdr(b, hostOrder)
             enc == EncodingOf(raw)
         IN  IF ~ELF_MAGIC_VALID(raw)
             THEN [status |-> "ELFIO_E_INVALID", hdr |-> raw, encoding |-> oldEncoding,
                   conv |-> 0]
             ELSE IF enc = "ELF_INVALID_ENCODING"
             THEN [status |-> "ELFIO_E_INVALID", hdr |-> raw, encoding |-> enc, conv |-> 0]
             ELSE IF NeedsConversion(hostOrder, enc)
             THEN [status |-> "pass", hdr |-> ConvertEhdr(raw), encoding |-> enc, conv |-> 1]
             ELSE [status |-> "pass", hdr |-> raw, encoding |-> enc, conv |-> 0]

ElfIo_Init(len, f, mode, garbage) ==
    /\ fault = "none"
    /\ (mode = ELFIO_WRITE) <=> (f = OutFile)
    /\ mode \in {ELFIO_READ, ELFIO_WRITE} \/ f = NoFile
    /\ mode = ELFIO_WRITE \/ garbage = FirstGarbageEhdr
    \* a call that returns at lines 156-166 never looks at the file
    /\ (len > ELFIO_MAX_FILENAME_LEN \/ (str.guard = SizeofElfIoStruct /\ str.file_opened = TRUE))
          => (f \in {NoFile, OutFile} /\ garbage = FirstGarbageEhdr)
    /\ op' = "ElfIo_Init"
    /\ listing' = NoListing
    /\ UNCHANGED <<libVars, extVars>>
    /\ args' = [NoArgs EXCEPT !.len = len, !.mode = mode, !.file = f]
    /\ sym' = NoSym
    /\ LET pre == InitPrecheck(str, len, mode)
       IN  IF pre # "pass"
           THEN /\ ret' = pre
                /\ io' = {}
                /\ UNCHANGED <<host, str, hdr, phdrs, shdrs, sects, heap, streams, nextBlock,
                               fd, fault, opened, shtRead, initBase, hdrConversions>>
           ELSE IF mode = ELFIO_READ /\ f = NoFile
           THEN \* fopen failed
                /\ str' = [str EXCEPT !.file_opened = FALSE, !.guard = SizeofElfIoStruct,
                                      !.mode = mode, !.stream = NULL]
                /\ ret' = "ELFIO_E_FILEIO"
                /\ io' = {}
                /\ opened' = FALSE
                /\ shtRead' = FALSE
                /\ initBase' = nextBlock
                /\ UNCHANGED <<host, hdr, phdrs, shdrs, sects, heap, streams, nextBlock, fd,
                               fault, hdrConversions>>
           ELSE /\ nextBlock + 5 <= MaxBlocks
                /\ \E b \in {FileBytes(f)} :
                   \E rd \in {IF mode = ELFIO_READ
                              THEN ReadHeader(b, host, str.encoding)
                              ELSE [status |-> "pass", hdr |-> garbage,
                                    encoding |-> str.encoding, conv |-> hdrConversions]} :
                   \E s2 \in {[str EXCEPT !.file_opened = TRUE, !.guard = SizeofElfIoStruct,
                                          !.mode = mode, !.stream = nextBlock,
                                          !.file_name = nextBlock + 1,
                                          !.header = nextBlock + 2,
                                          !.encoding = rd.encoding]} :
                       /\ hdr' = rd.hdr
                       /\ hdrConversions' = rd.conv
                       /\ io' = IF mode = ELFIO_READ THEN {[call |-> "fread", sec |-> -1]} ELSE {}
                       /\ streams' = streams \cup {nextBlock}
                       /\ fd' = [file |-> f,
                                 pos |-> IF mode = ELFIO_READ
                                         THEN IF Len(b) < ELF_HEADER_SIZE
                                              THEN Len(b) ELSE ELF_HEADER_SIZE
                                         ELSE 0]
                       /\ initBase' = nextBlock
                       /\ shtRead' = FALSE
                       /\ IF rd.status # "pass"
                          THEN /\ str' = s2
                               /\ ret' = rd.status
                               /\ heap' = heap \cup {nextBlock + 1, nextBlock + 2}
                               /\ nextBlock' = nextBlock + 3
                               /\ opened' = FALSE
                               /\ UNCHANGED <<phdrs, shdrs, sects, fault>>
                          ELSE \E tab \in {AllocTables(s2, rd.hdr, nextBlock + 3)} :
                               /\ str' = tab.str
                               /\ fault' = tab.fault
                               /\ ret' = IF tab.fault = "none" THEN "ELFIO_E_OK" ELSE "none"
                               /\ heap' = heap \cup {nextBlock + 1, nextBlock + 2} \cup tab.blocks
                               /\ nextBlock' = nextBlock + 3 + Cardinality(tab.blocks)
                               /\ opened' = (tab.fault = "none")
                               /\ phdrs' = tab.phdrs
                               /\ shdrs' = tab.shdrs
                               /\ sects' = tab.sects
                       /\ host' = host

(***************************************************************************)
(* Reading memory that may be uninitialised: the values the read can give. *)
(***************************************************************************)
HdrValues == IF IsUninit(hdr) THEN GarbageEhdrs ELSE {hdr}

\* ELFIO_WEAK_PARAM_CHECK(str)
ELFIO_WEAK_PARAM_CHECK(s) == s.guard = SizeofElfIoStruct

(***************************************************************************)
(* ElfIo_Deinit.                                                           *)
(***************************************************************************)
\* The pointers ElfIo_Deinit passes to free() when it sees header h.
DeinitFrees(s, h) ==
    (IF s.mode = ELFIO_READ /\ h.e_phnum > 0 THEN {s.program_headers} ELSE {})
      \cup (IF s.mode = ELFIO_READ /\ h.e_shnum > 0
            THEN {s.section_headers, s.sections}
                   \cup {sects[i].data : i \in {j \in DOMAIN sects : sects[j].length # <<0, 0>>}}
            ELSE {})
      \cup {s.header, s.file_name}

\* Whether the call, seeing header h, touches memory it must not: it reads
\* through str->header and str->sections and frees and closes what it holds.
DeinitUndefined(s, h) ==
    \/ s.header \notin heap
    \/ s.mode = ELFIO_READ /\ h.e_shnum > 0 /\ s.sections \notin heap
    \/ DeinitFrees(s, h) \ (heap \cup {NULL}) # {}
    \/ s.stream \notin streams

\* if (str->file_opened==false || str->mode==ELFIO_INVALID_MODE)
DeinitRejects(s) == s.file_opened = FALSE \/ s.mode = ELFIO_INVALID_MODE

ElfIo_Deinit ==
    /\ fault = "none"
    /\ op' = "ElfIo_Deinit"
    /\ listing' = NoListing
    /\ UNCHANGED <<libVars, extVars>>
    /\ io' = {}
    /\ sym' = NoSym
    /\ args' = NoArgs
    /\ UNCHANGED <<host, nextBlock, initBase, fd>>
    /\ IF ~ELFIO_WEAK_PARAM_CHECK(str)
       THEN /\ fault' = "assert"
            /\ ret' = "none"
            /\ UNCHANGED <<str, hdr, phdrs, shdrs, sects, heap, streams, hdrConversions,
                           opened, shtRead>>
       ELSE IF DeinitRejects(str)
       THEN /\ ret' = "ELFIO_E_STATE"
            /\ UNCHANGED <<str, hdr, phdrs, shdrs, sects, heap, streams, fault,
                           hdrConversions, opened, shtRead>>
       ELSE \E h \in HdrValues :
              IF DeinitUndefined(str, h)
              THEN /\ fault' = "undefined"
                   /\ ret' = "none"
                   /\ UNCHANGED <<str, hdr, phdrs, shdrs, sects, heap, streams,
                                  hdrConversions, opened, shtRead>>
              ELSE /\ heap' = heap \ DeinitFrees(str, h)
                   /\ streams' = streams \ {str.stream}
                   /\ str' = [str EXCEPT !.guard = 0, !.file_opened = FALSE,
                                         !.mode = ELFIO_INVALID_MODE]
                   /\ hdr' = Uninit
                   /\ phdrs' = <<>>
                   /\ shdrs' = <<>>
                   /\ sects' = <<>>
                   /\ hdrConversions' = 0
                   /\ opened' = FALSE
                   /\ shtRead' = FALSE
                   /\ ret' = "ELFIO_E_OK"
                   /\ fault' = fault

(***************************************************************************)
(* The stream.                                                             *)
(***************************************************************************)
\* A position past the end of every file of the model.
FarPos == 65536

\* File position after a successful fseek(stream, off, SEEK_SET).
SeekPos(off) == IF off[1] > 0 THEN FarPos ELSE off[2]

\* fseek takes a long: where long has 32 bits an offset of 2^31 or more is
\* negative and the call fails; where it has 64 bits the call succeeds.
SeekOk(off, long32) == ~(long32 /\ off[1] >= 32768)

\* Number of whole objects of the given size that fread can deliver from
\* position pos of the bytes b, at most count.
Available(b, pos, size, count) ==
    IF pos >= Len(b) THEN 0
    ELSE IF (Len(b) - pos) \div size < count THEN (Len(b) - pos) \div size ELSE count

(***************************************************************************)
(* ElfIo_ReadProgramTable and ElfIo_ReadSectionHeaderTable.                *)
(***************************************************************************)
ConvertPhdr(p) ==
    [p_type |-> ElfIo_Convert32U(p.p_type), p_offset |-> ElfIo_Convert32U(p.p_offset),
     p_vaddr |-> ElfIo_Convert32U(p.p_vaddr), p_paddr |-> ElfIo_Convert32U(p.p_paddr),
     p_filesz |-> ElfIo_Convert32U(p.p_filesz), p_memsz |-> ElfIo_Convert32U(p.p_memsz),
     p_flags |-> ElfIo_Convert32U(p.p_flags), p_align |-> ElfIo_Convert32U(p.p_align)]

\* A faulty variant of ConvertShdr that leaves sh_offset as read.
ConvertShdrKeepOffset(x) ==
    [sh_name |-> ElfIo_Convert32U(x.sh_name), sh_type |-> ElfIo_Convert32U(x.sh_type),
     sh_flags |-> ElfIo_Convert32U(x.sh_flags), sh_addr |-> ElfIo_Convert32U(x.sh_addr),
     sh_offset |-> x.sh_offset, sh_size |-> ElfIo_Convert32U(x.sh_size),
     sh_link |-> ElfIo_Convert32U(x.sh_link), sh_info |-> ElfIo_Convert32U(x.sh_info),
     sh_addralign |-> ElfIo_Convert32U(x.sh_addralign),
     sh_entsize |-> ElfIo_Convert32U(x.sh_entsize)]

\* The conversion block of ElfIo_ReadSectionHeaderTable.
ConvertShdr(x) ==
    [sh_name |-> ElfIo_Convert32U(x.sh_name), sh_type |-> ElfIo_Convert32U(x.sh_type),
     sh_flags |-> ElfIo_Convert32U(x.sh_flags), sh_addr |-> ElfIo_Convert32U(x.sh_addr),
     sh_offset |-> ElfIo_Convert32U(x.sh_offset), sh_size |-> ElfIo_Convert32U(x.sh_size),
     sh_link |-> ElfIo_Convert32U(x.sh_link), sh_info |-> ElfIo_Convert32U(x.sh_info),
     sh_addralign |-> ElfIo_Convert32U(x.sh_addralign),
     sh_entsize |-> ElfIo_Convert32U(x.sh_entsize)]

\* One pass of the read loop of ElfIo_ReadProgramTable over the bytes b from
\* position pos: entry i of the table after the loop.
PhdrEntry(b, pos, i, got, old) ==
    IF i <= got
    THEN LET raw == ReadPhdr(b, pos + (i - 1) * ELF_PHDR_SIZE, host)
         IN  IF NeedsConversion(host, str.encoding) THEN ConvertPhdr(raw) ELSE raw
    ELSE IF i = got + 1 /\ pos + got * ELF_PHDR_SIZE < Len(b) THEN Uninit
    ELSE old

ShdrEntry(b, pos, i, got, old) ==
    IF i <= got
    THEN LET raw == ReadShdr(b, pos + (i - 1) * ELF_SECTION_SIZE, host)
         IN  IF NeedsConversion(host, str.encoding) THEN ConvertShdr(raw) ELSE raw
    ELSE IF i = got + 1 /\ pos + got * ELF_SECTION_SIZE < Len(b) THEN Uninit
    ELSE old

\* if (str->mode!=ELFIO_READ) return ELFIO_E_STATE;
TableReadRejects(s) == s.mode # ELFIO_READ

ElfIo_ReadProgramTable(long32) ==
    /\ fault = "none"
    /\ op' = "ElfIo_ReadProgramTable"
    /\ listing' = NoListing
    /\ UNCHANGED <<libVars, extVars>>
    /\ sym' = NoSym
    /\ args' = NoArgs
    /\ UNCHANGED <<host, str, hdr, shdrs, sects, heap, streams, nextBlock, opened, shtRead,
                   initBase, hdrConversions>>
    /\ IF ~ELFIO_WEAK_PARAM_CHECK(str)
       THEN fault' = "assert" /\ ret' = "none" /\ io' = {} /\ UNCHANGED <<phdrs, fd>>
       ELSE IF TableReadRejects(str)
       THEN ret' = "ELFIO_E_STATE" /\ io' = {} /\ UNCHANGED <<phdrs, fd, fault>>
       ELSE \E h \in HdrValues :
              IF \/ str.header \notin heap
                 \/ str.stream \notin streams
                 \/ h.e_phnum > 0 /\ SeekOk(h.e_phoff, long32)
                      /\ (str.program_headers \notin heap \/ Len(phdrs) < h.e_phnum)
              THEN fault' = "undefined" /\ ret' = "none" /\ io' = {} /\ UNCHANGED <<phdrs, fd>>
              ELSE IF ~SeekOk(h.e_phoff, long32)
              THEN /\ ret' = "ELFIO_E_FILEIO"
                   /\ io' = {[call |-> "fseek", sec |-> -1]}
                   /\ UNCHANGED <<phdrs, fd, fault>>
              ELSE LET b == FileBytes(fd.file)
                       pos == SeekPos(h.e_phoff)
                       got == Available(b, pos, ELF_PHDR_SIZE, h.e_phnum)
                   IN  /\ phdrs' = [i \in DOMAIN phdrs |-> PhdrEntry(b, pos, i, got, phdrs[i])]
                       /\ ret' = IF got < h.e_phnum THEN "ELFIO_E_FILEIO" ELSE "ELFIO_E_OK"
                       /\ fd' = [fd EXCEPT !.pos = IF got < h.e_phnum
                                                   THEN IF pos > Len(b) THEN pos ELSE Len(b)
                                                   ELSE pos + got * ELF_PHDR_SIZE]
                       /\ io' = {[call |-> "fseek", sec |-> -1]}
                                  \cup (IF h.e_phnum > 0
                                        THEN {[call |-> "fread", sec |-> -1]} ELSE {})
                       /\ fault' = fault

ElfIo_ReadSectionHeaderTable(long32) ==
    /\ fault = "none"
    /\ op' = "ElfIo_ReadSectionHeaderTable"
    /\ listing' = NoListing
    /\ UNCHANGED <<libVars, extVars>>
    /\ sym' = NoSym
    /\ args' = NoArgs
    /\ UNCHANGED <<host, str, hdr, phdrs, sects, heap, streams, nextBlock, opened, initBase,
                   hdrConversions>>
    /\ IF ~ELFIO_WEAK_PARAM_CHECK(str)
       THEN fault' = "assert" /\ ret' = "none" /\ io' = {} /\ UNCHANGED <<shdrs, fd, shtRead>>
       ELSE IF TableReadRejects(str)
       THEN ret' = "ELFIO_E_STATE" /\ io' = {} /\ UNCHANGED <<shdrs, fd, fault, shtRead>>
       ELSE \E h \in HdrValues :
              IF \/ str.header \notin heap
                 \/ str.stream \notin streams
                 \/ h.e_shnum > 0 /\ SeekOk(h.e_shoff, long32)
                      /\ (str.section_headers \notin heap \/ Len(shdrs) < h.e_shnum)
              THEN fault' = "undefined" /\ ret' = "none" /\ io' = {}
                     /\ UNCHANGED <<shdrs, fd, shtRead>>
              ELSE IF ~SeekOk(h.e_shoff, long32)
              THEN /\ ret' = "ELFIO_E_FILEIO"
                   /\ io' = {[call |-> "fseek", sec |-> -1]}
                   /\ UNCHANGED <<shdrs, fd, fault, shtRead>>
              ELSE LET b == FileBytes(fd.file)
                       pos == SeekPos(h.e_shoff)
                       got == Available(b, pos, ELF_SECTION_SIZE, h.e_shnum)
                   IN  /\ shdrs' = [i \in DOMAIN shdrs |-> ShdrEntry(b, pos, i, got, shdrs[i])]
                       /\ ret' = IF got < h.e_shnum THEN "ELFIO_E_FILEIO" ELSE "ELFIO_E_OK"
                       /\ shtRead' = (shtRead \/ got >= h.e_shnum)
                       /\ fd' = [fd EXCEPT !.pos = IF got < h.e_shnum
                                                   THEN IF pos > Len(b) THEN pos ELSE Len(b)
                                                   ELSE pos + got * ELF_SECTION_SIZE]
                       /\ io' = {[call |-> "fseek", sec |-> -1]}
                                  \cup (IF h.e_shnum > 0
                                        THEN {[call |-> "fread", sec |-> -1]} ELSE {})
                       /\ fault' = fault

(***************************************************************************)
(* ElfIo_ReadSections.                                                     *)
(***************************************************************************)
\* if ((section->sh_type!=SHT_NOBITS) && (section->sh_size>0))
HasFileData(sh) == sh.sh_type # <<0, SHT_NOBITS>> /\ sh.sh_size # <<0, 0>>

\* The buffer of a section after malloc, memset and fread from position pos
\* of the bytes b: the bytes the file has there, zero where it has none.  A
\* buffer of 64 KiB or more is not represented (no file of the model can
\* fill it).
SectionBytes(b, pos, size, seekOk) ==
    IF size[1] > 0 THEN <<>>
    ELSE [i \in 1..size[2] |-> IF seekOk /\ pos + i <= Len(b) THEN b[pos + i] ELSE 0]

\* fread(data, sh_size, 1, stream) delivered the whole section.
ReadIsFull(b, pos, size) == size[1] = 0 /\ pos + size[2] <= Len(b)

\* The section header entry num (1-based) as ElfIo_ReadSections reads it; g
\* is the value read from an entry that was never written.
SectionHeaderValue(num, g) == IF IsUninit(shdrs[num]) THEN g ELSE shdrs[num]

\* One pass of the loop of ElfIo_ReadSections, for section num with header
\* sh; b are the bytes of the file.  acc: the sections array, the heap, the next free address, the file
\* position, the stream calls issued and the status so far ("run": the loop
\* goes on).
ReadSection(num, sh, b, long32, acc) ==
    IF ~HasFileData(sh) THEN acc
    ELSE IF str.stream \notin streams THEN [acc EXCEPT !.status = "undefined"]
    ELSE LET seekOk == SeekOk(sh.sh_offset, long32)
             pos == SeekPos(sh.sh_offset)
             full == seekOk /\ ReadIsFull(b, pos, sh.sh_size)
         IN  [sects |-> [acc.sects EXCEPT ![num] =
                            [data |-> acc.next, length |-> sh.sh_size,
                             bytes |-> SectionBytes(b, pos, sh.sh_size, seekOk)]],
              heap |-> acc.heap \cup {acc.next},
              next |-> acc.next + 1,
              pos |-> IF ~seekOk THEN acc.pos
                      ELSE IF full THEN pos + sh.sh_size[2]
                      ELSE IF pos > Len(b) THEN pos ELSE Len(b),
              io |-> acc.io \cup {[call |-> "fseek", sec |-> num - 1]}
                       \cup (IF seekOk THEN {[call |-> "fread", sec |-> num - 1]} ELSE {}),
              status |-> IF full THEN "run" ELSE "ELFIO_E_FILEIO"]

\* The loop of ElfIo_ReadSections from section num to n.
RECURSIVE ReadSectionsFrom(_, _, _, _, _, _)
ReadSectionsFrom(num, n, g, b, long32, acc) ==
    IF num > n \/ acc.status # "run" THEN acc
    ELSE ReadSectionsFrom(num + 1, n, g, b, long32,
                          ReadSection(num, SectionHeaderValue(num, g), b, long32, acc))

\* ElfIo_ReadSections checks neither the guard nor the mode nor whether the
\* section header table was read.
ElfIo_ReadSections(long32) ==
    /\ fault = "none"
    /\ op' = "ElfIo_ReadSections"
    /\ listing' = NoListing
    /\ UNCHANGED <<libVars, extVars>>
    /\ sym' = NoSym
    /\ args' = NoArgs
    /\ UNCHANGED <<host, str, hdr, phdrs, shdrs, streams, opened, shtRead, initBase,
                   hdrConversions>>
    /\ \E h \in HdrValues :
              IF \/ str.header \notin heap
                 \/ h.e_shnum > 0
                      /\ (\/ str.section_headers \notin heap
                          \/ str.sections \notin heap
                          \/ Len(shdrs) < h.e_shnum)
              THEN fault' = "undefined" /\ ret' = "none" /\ io' = {}
                     /\ UNCHANGED <<sects, heap, nextBlock, fd>>
              ELSE \E g \in GarbageShdrs :
                     \E res \in {ReadSectionsFrom(1, h.e_shnum, g, FileBytes(fd.file), long32,
                                                  [sects |-> sects, heap |-> heap,
                                                   next |-> nextBlock, pos |-> fd.pos,
                                                   io |-> {}, status |-> "run"])} :
                         /\ res.next <= MaxBlocks + 1
                         /\ (\E i \in 1..h.e_shnum : IsUninit(shdrs[i])) \/ g = FirstGarbageShdr
                         /\ sects' = res.sects
                         /\ heap' = res.heap
                         /\ nextBlock' = res.next
                         /\ fd' = [fd EXCEPT !.pos = res.pos]
                         /\ io' = res.io
                         /\ fault' = IF res.status = "undefined" THEN "undefined" ELSE fault
                         /\ ret' = CASE res.status = "run" -> "ELFIO_E_OK"
                                     [] res.status = "undefined" -> "none"
                                     [] OTHER -> res.status

(***************************************************************************)
(* ElfIO_GetSymbol.                                                        *)
(***************************************************************************)
\* The conversion block of ElfIO_GetSymbol; st_shndx is a 16-bit field that
\* goes through ElfIo_Convert32U and back into 16 bits.
ConvertSym(y) ==
    [y EXCEPT !.st_name = ElfIo_Convert32U(@), !.st_value = ElfIo_Convert32U(@),
              !.st_size = ElfIo_Convert32U(@),
              !.st_shndx = Narrow16(ElfIo_Convert32U(Widen16(@)))]

\* Largest section and symbol index given to ElfIO_GetSymbol.
MaxSectionArg == 3

MaxSymbolArg == 2

ElfIO_GetSymbol(section, idx) ==
    /\ fault = "none"
    /\ op' = "ElfIO_GetSymbol"
    /\ listing' = NoListing
    /\ UNCHANGED <<libVars, extVars>>
    /\ ret' = "none"
    /\ io' = {}
    /\ args' = [NoArgs EXCEPT !.section = section, !.idx = idx]
    /\ UNCHANGED <<host, str, hdr, phdrs, shdrs, sects, heap, streams, nextBlock, fd, opened,
                   shtRead, initBase, hdrConversions>>
    /\ IF \/ str.sections \notin heap
          \/ section + 1 \notin DOMAIN sects
          \/ sects[section + 1].data \notin heap
          \/ (idx + 1) * ELF_SYM_TABLE_SIZE > Len(sects[section + 1].bytes)
       THEN fault' = "undefined" /\ sym' = NoSym
       ELSE LET raw == ReadSym(sects[section + 1].bytes, idx * ELF_SYM_TABLE_SIZE, host)
            IN  /\ sym' = IF NeedsConversion(host, str.encoding) THEN ConvertSym(raw) ELSE raw
                /\ fault' = fault

(***************************************************************************)
(* ElfIo_PrintSymbols and the name lookups of ElfInfo.c.  What printf      *)
(* writes is not kept; listing holds the sections visited, the symbols     *)
(* fetched as <<section, index>> and the names fetched as                  *)
(* <<string table section, offset>>, both 32-bit values.                   *)
(***************************************************************************)
\* if ((sh_type==SHT_SYMTAB) || (sh_type==SHT_DYNSYM))
IsSymbolTable(sh) == sh.sh_type = <<0, SHT_SYMTAB>> \/ sh.sh_type = <<0, SHT_DYNSYM>>

\* assert(section_header->sh_entsize==sizeof(Elf32_Sym));
SymEntSizeOk(sh) == sh.sh_entsize = <<0, ELF_SYM_TABLE_SIZE>>

\* A faulty variant of NumSymbols that counts a partial entry at the end.
NumSymbolsRoundUp(sh) ==
    sh.sh_size[1] * (65536 \div sh.sh_entsize[2])
      + (sh.sh_size[2] + sh.sh_entsize[2] - 1) \div sh.sh_entsize[2]

\* num_symbols=section_header->sh_size/section_header->sh_entsize; the
\* assertion before it has made sh_entsize 16, which divides 65536.
NumSymbols(sh) ==
    sh.sh_size[1] * (65536 \div sh.sh_entsize[2]) + sh.sh_size[2] \div sh.sh_entsize[2]

\* ((Elf32_Sym *)ElfIO_GetSection(str,section)->data)[idx] lies in memory the
\* program owns.
SymbolReadable(section, idx) ==
    /\ str.sections \in heap
    /\ section + 1 \in DOMAIN sects
    /\ sects[section + 1].data \in heap
    /\ (idx + 1) * ELF_SYM_TABLE_SIZE <= Len(sects[section + 1].bytes)

\* The value ElfIO_GetSymbol(str, section, idx) returns.
SymbolValue(section, idx) ==
    LET raw == ReadSym(sects[section + 1].bytes, idx * ELF_SYM_TABLE_SIZE, host)
    IN  IF NeedsConversion(host, str.encoding) THEN ConvertSym(raw) ELSE raw

\* &ElfIO_GetSection(str,section)->data[idx] points into the buffer of the
\* section: section and idx are 32-bit values.
NameInside(section, idx) ==
    /\ str.sections \in heap
    /\ section[1] = 0
    /\ section[2] + 1 \in DOMAIN sects
    /\ sects[section[2] + 1].data \in heap
    /\ idx[1] = 0
    /\ idx[2] < Len(sects[section[2] + 1].bytes)

\* Reading the string at that address, as printf("%s") does, ends at a zero
\* byte of the buffer.
NameReadable(section, idx) ==
    /\ NameInside(section, idx)
    /\ \E k \in idx[2] + 1 .. Len(sects[section[2] + 1].bytes) :
          sects[section[2] + 1].bytes[k] = 0

\* The body of the inner loop goes through for symbol j of section i.
SymbolPrintable(i, sh, j) ==
    /\ SymbolReadable(i, j)
    /\ NameReadable(sh.sh_link, SymbolValue(i, j).st_name)

\* One pass of the outer loop of ElfIo_PrintSymbols, for section i (0-based)
\* with header sh.  acc: the listing and the status so far ("run": the loop
\* goes on).  The inner loop stops at the first symbol it cannot read.
PrintSection(i, sh, acc) ==
    IF ~IsSymbolTable(sh) THEN acc
    ELSE IF ~SymEntSizeOk(sh)
    THEN [acc EXCEPT !.visited = @ \cup {i}, !.status = "assert"]
    ELSE LET n == NumSymbols(sh)
             inBuffer == Len(sects[i + 1].bytes) \div ELF_SYM_TABLE_SIZE
             last == IF n - 1 < inBuffer THEN n - 1 ELSE inBuffer
             bad == {j \in 0..last : ~SymbolPrintable(i, sh, j)}
             stop == IF bad = {} THEN n
                     ELSE CHOOSE j \in bad : \A k \in bad : j <= k
             got == {j \in 0..last : j < stop \/ (j = stop /\ SymbolReadable(i, j))}
         IN  [visited |-> acc.visited \cup {i},
              reads |-> acc.reads \cup {<<i, j>> : j \in got},
              names |-> acc.names \cup {<<sh.sh_link, SymbolValue(i, j).st_name>> : j \in got},
              status |-> IF bad = {} THEN "run" ELSE "undefined"]

\* The outer loop of ElfIo_PrintSymbols from section i to num_entries - 1.
RECURSIVE PrintSymbolsFrom(_, _, _, _)
PrintSymbolsFrom(i, num_entries, g, acc) ==
    IF i >= num_entries \/ acc.status # "run" THEN acc
    ELSE PrintSymbolsFrom(i + 1, num_entries, g,
                          PrintSection(i, SectionHeaderValue(i + 1, g), acc))

ElfIo_PrintSymbols(g) ==
    /\ fault = "none"
    /\ op' = "ElfIo_PrintSymbols"
    /\ sym' = NoSym
    /\ args' = NoArgs
    /\ io' = {}
    /\ UNCHANGED <<host, str, hdr, phdrs, shdrs, sects, heap, streams, nextBlock, fd, opened,
                   shtRead, initBase, hdrConversions>>
    /\ UNCHANGED <<libVars, extVars>>
    /\ IF ~ELFIO_WEAK_PARAM_CHECK(str)
       THEN fault' = "assert" /\ ret' = "none" /\ listing' = NoListing
       ELSE IF str.mode # ELFIO_READ
       THEN ret' = "ELFIO_E_STATE" /\ listing' = NoListing /\ fault' = fault
       ELSE \E h \in HdrValues :
              IF \/ str.header \notin heap
                 \/ h.e_shnum > 0 /\ (str.section_headers \notin heap \/ Len(shdrs) < h.e_shnum)
              THEN fault' = "undefined" /\ ret' = "none" /\ listing' = NoListing
              ELSE /\ (\E i \in 1..h.e_shnum : IsUninit(shdrs[i])) \/ g = FirstGarbageShdr
                   /\ \E res \in {PrintSymbolsFrom(0, h.e_shnum, g,
                                                   NoListing @@ [status |-> "run"])} :
                         /\ listing' = [visited |-> res.visited, reads |-> res.reads,
                                        names |-> res.names]
                         /\ fault' = IF res.status = "run" THEN fault ELSE res.status
                         /\ ret' = IF res.status = "run" THEN "ELFIO_E_OK" ELSE "none"

\* Offsets given to the name lookups: inside the string table of the files,
\* its length, and the last two bytes of their symbol table.
NameOffsets == {3, 8, 30}

\* const char *ElfInfo_GetSymbolName(str, section, idx): the address
\* &ElfIO_GetSection(str,section)->data[idx], with no check of idx against
\* the length of the section.  The result is kept in listing.names.
ElfInfo_GetSymbolName(section, idx) ==
    /\ fault = "none"
    /\ op' = "ElfInfo_GetSymbolName"
    /\ sym' = NoSym
    /\ args' = [NoArgs EXCEPT !.section = section, !.idx = idx]
    /\ io' = {}
    /\ UNCHANGED <<host, str, hdr, phdrs, shdrs, sects, heap, streams, nextBlock, fd, opened,
                   shtRead, initBase, hdrConversions>>
    /\ UNCHANGED <<libVars, extVars>>
    /\ IF str.sections \notin heap \/ section + 1 \notin DOMAIN sects
       THEN fault' = "undefined" /\ ret' = "none" /\ listing' = NoListing
       ELSE /\ fault' = fault
            /\ ret' = "pointer"
            /\ listing' = [NoListing EXCEPT !.names = {<<<<0, section>>, <<0, idx>>>>}]

\* const char *ElfInfo_GetSectionName(str, idx): the same address in the
\* section str->header->e_shstrndx.
ElfInfo_GetSectionName(idx) ==
    /\ fault = "none"
    /\ op' = "ElfInfo_GetSectionName"
    /\ sym' = NoSym
    /\ io' = {}
    /\ UNCHANGED <<host, str, hdr, phdrs, shdrs, sects, heap, streams, nextBlock, fd, opened,
                   shtRead, initBase, hdrConversions>>
    /\ UNCHANGED <<libVars, extVars>>
    /\ IF str.header \notin heap
       THEN /\ fault' = "undefined" /\ ret' = "none" /\ listing' = NoListing
            /\ args' = [NoArgs EXCEPT !.idx = idx]
       ELSE \E h \in HdrValues :
              /\ args' = [NoArgs EXCEPT !.section = h.e_shstrndx, !.idx = idx]
              /\ IF str.sections \notin heap \/ h.e_shstrndx + 1 \notin DOMAIN sects
                 THEN fault' = "undefined" /\ ret' = "none" /\ listing' = NoListing
                 ELSE /\ fault' = fault
                      /\ ret' = "pointer"
                      /\ listing' =
                            [NoListing EXCEPT !.names = {<<<<0, h.e_shstrndx>>, <<0, idx>>>>}]

Next ==
    \/ \E len \in NameLens, f \in Files \cup {NoFile, OutFile}, mode \in Modes,
          garbage \in GarbageEhdrs :
          ElfIo_Init(len, f, mode, garbage)
    \/ ElfIo_Deinit
    \/ \E long32 \in BOOLEAN : ElfIo_ReadProgramTable(long32)
    \/ \E long32 \in BOOLEAN : ElfIo_ReadSectionHeaderTable(long32)
    \/ \E long32 \in BOOLEAN : ElfIo_ReadSections(long32)
    \/ \E section \in 0..MaxSectionArg, idx \in 0..MaxSymbolArg : ElfIO_GetSymbol(section, idx)
    \/ \E g \in GarbageShdrs : ElfIo_PrintSymbols(g)
    \/ \E section \in 0..MaxSectionArg, idx \in NameOffsets : ElfInfo_GetSymbolName(section, idx)
    \/ \E idx \in NameOffsets : ElfInfo_GetSectionName(idx)

Spec == Init /\ [][Next]_vars

(***************************************************************************)
(* Text files.  A file is its lines, each the sequence of its characters   *)
(* without the line end, and nl: whether a newline ends the last line.     *)
(* The lines are shorter than TXTIO_MAX_LINE_LEN, so that fgets delivers   *)
(* each of them whole.                                                     *)
(***************************************************************************)
\* The line that starts an S-record of type character t.
Rec(t) == <<"S", t>>

TextLines(f) ==
    CASE f = "empty" -> [lines |-> <<>>, nl |-> FALSE]
      [] f = "srec" -> [lines |-> <<Rec("0"), Rec("1"), Rec("1"), Rec("5"), Rec("9")>>,
                        nl |-> TRUE]
      [] f = "open" -> [lines |-> <<Rec("0"), Rec("1"), Rec("9")>>, nl |-> FALSE]
      [] f = "data" -> [lines |-> <<Rec("0"), Rec("1"), Rec("2"), Rec("3")>>, nl |-> TRUE]
      [] f = "s37" -> [lines |-> <<Rec("0"), Rec("3"), Rec("7")>>, nl |-> TRUE]
      [] f = "s28" -> [lines |-> <<Rec("0"), Rec("2"), Rec("8")>>, nl |-> FALSE]
      [] f = "mixed" -> [lines |-> <<Rec("0"), Rec("4"), <<":", "1">>, <<>>, <<"S">>, Rec("1")>>,
                         nl |-> TRUE]
      [] OTHER -> [lines |-> <<>>, nl |-> FALSE]

TextFiles == {"empty", "srec", "open", "data", "s37", "s28", "mixed"}

\* The code of a character; "NUL" is the terminating zero.
Ord(c) ==
    CASE c = "0" -> 48 [] c = "1" -> 49 [] c = "2" -> 50 [] c = "3" -> 51 [] c = "4" -> 52
      [] c = "5" -> 53 [] c = "6" -> 54 [] c = "7" -> 55 [] c = "8" -> 56 [] c = "9" -> 57
      [] c = ":" -> 58 [] c = "S" -> 83 [] c = "\n" -> 10 [] c = "NUL" -> 0

\* line[k] of the string in a line buffer, for k up to its terminating zero.
BufChar(line, k) ==
    IF k < Len(line.text) THEN line.text[k + 1]
    ELSE IF k = Len(line.text) /\ line.nl THEN "\n"
    ELSE "NUL"

\* fgets(buf,TXTIO_MAX_LINE_LEN,str->stream) on the file content c of which
\* pos lines are read: it reads to the next newline or to the end of the
\* file, and sets the end-of-file indicator only when it runs into the end;
\* when nothing is left it returns NULL and leaves buf as it was.
Fgets(c, pos, buf) ==
    IF pos >= Len(c.lines) THEN [buf |-> buf, pos |-> pos, eof |-> TRUE]
    ELSE [buf |-> [text |-> c.lines[pos + 1], nl |-> pos + 1 < Len(c.lines) \/ c.nl],
          pos |-> pos + 1,
          eof |-> pos + 1 = Len(c.lines) /\ ~c.nl]

\* bool S19Io_LineScanning(line, info) with the static variables st; call
\* is the invocation of the running scan.  The result holds the new static
\* variables, the return value and the unexpected record type reported.
S19Io_LineScanning(line, st, call) ==
    LET lineNumber == st.lineNumber + 1
        type == (Ord(BufChar(line, 1)) - Ord("0")) % 256
        same == [state |-> st.state, lineNumber |-> lineNumber, ret |-> TRUE, report |-> <<>>]
    IN  IF BufChar(line, 0) # "S" THEN [same EXCEPT !.ret = FALSE]
        ELSE CASE st.state = "START" -> [same EXCEPT !.state = "READ_LINE"]
               [] st.state = "READ_LINE" ->
                    IF type \in {1, 2, 3} THEN same
                    ELSE [same EXCEPT !.ret = FALSE,
                                      !.report = <<[line |-> lineNumber, type |-> type,
                                                    call |-> call]>>]
               [] st.state = "FINISHED" -> same

\* Scans begun in one run of the program.
MaxScans == 2

\* A stream fopen returned.
TxtStream == 1

\* The three checks that open TxtIo_Init.
TxtInitPrecheck(m, len, mode) ==
    IF m.guard = SizeofTxtIoStruct /\ m.file_opened = TRUE THEN "TXTIO_E_STATE"
    ELSE IF ~(mode = TXTIO_READ \/ mode = TXTIO_WRITE) THEN "TXTIO_E_VALUE"
    ELSE IF len > TXTIO_MAX_FILENAME_LEN THEN "TXTIO_E_LIMIT"
    ELSE "pass"

TxtIo_Init(len, f, mode) ==
    /\ txt.fault = "none"
    /\ txt.pc = "idle"
    /\ UNCHANGED <<elfVars, s19, cs, fp, cv, extVars>>
    /\ \E pre \in {TxtInitPrecheck(txt.str, len, mode)} :
          txt' = IF pre # "pass" THEN [txt EXCEPT !.op = "TxtIo_Init", !.ret = pre]
                 ELSE IF mode = TXTIO_READ /\ f = NoFile
                 THEN [txt EXCEPT !.op = "TxtIo_Init", !.ret = "TXTIO_E_FILEIO",
                                  !.str = [stream |-> NULL, file_opened |-> FALSE,
                                           guard |-> SizeofTxtIoStruct, mode |-> mode]]
                 ELSE [txt EXCEPT !.op = "TxtIo_Init", !.ret = "TXTIO_E_OK",
                                  !.str = [stream |-> TxtStream, file_opened |-> TRUE,
                                           guard |-> SizeofTxtIoStruct, mode |-> mode],
                                  !.file = IF mode = TXTIO_READ THEN f ELSE OutFile,
                                  !.pos = 0, !.eof = FALSE]

\* TxtIo_ScanFile up to its loop: the assertions and fseek(str->stream,0,SEEK_SET).
TxtIo_ScanFile ==
    /\ txt.fault = "none"
    /\ txt.pc = "idle"
    /\ txt.scans < MaxScans
    /\ UNCHANGED <<elfVars, cs, fp, cv, extVars>>
    /\ s19' = [s19 EXCEPT !.reports = <<>>]
    /\ txt' = IF txt.str.file_opened # TRUE \/ txt.str.mode # TXTIO_READ
              THEN [txt EXCEPT !.op = "TxtIo_ScanFile", !.ret = "none", !.fault = "assert"]
              ELSE IF txt.str.stream # TxtStream
              THEN [txt EXCEPT !.op = "TxtIo_ScanFile", !.ret = "none", !.fault = "undefined"]
              ELSE [txt EXCEPT !.op = "TxtIo_ScanFile", !.ret = "none", !.pc = "loop",
                               !.pos = 0, !.eof = FALSE, !.calls = <<>>, !.rets = <<>>,
                               !.scans = @ + 1]

\* One pass of the loop of TxtIo_ScanFile: feof, fgets and the callout.  The
\* callout passes a string where fprintf expects its stream when it reports:
\* crash says that the call ended the program instead of printing.
TxtIo_ScanLine(crash) ==
    /\ txt.fault = "none"
    /\ txt.pc = "loop"
    /\ ~txt.eof
    /\ ~txt.err
    /\ UNCHANGED <<elfVars, cs, fp, cv, extVars>>
    /\ \E rd \in {Fgets(TextLines(txt.file), txt.pos, txt.buf)} :
       \E r \in {S19Io_LineScanning(rd.buf, s19, Len(txt.calls) + 1)} :
          /\ crash => r.report # <<>>
          /\ txt' = [txt EXCEPT !.buf = rd.buf, !.pos = rd.pos, !.eof = rd.eof,
                                !.calls = Append(@, rd.buf),
                                !.rets = IF crash THEN @ ELSE Append(@, r.ret),
                                !.fault = IF crash THEN "undefined" ELSE @]
          /\ s19' = [state |-> r.state, lineNumber |-> r.lineNumber,
                     reports |-> IF crash THEN s19.reports ELSE s19.reports \o r.report]

\* The loop of TxtIo_ScanFile ends: return TXTIO_E_OK.
TxtIo_ScanReturn ==
    /\ txt.fault = "none"
    /\ txt.pc = "loop"
    /\ txt.eof
    /\ UNCHANGED <<elfVars, s19, cs, fp, cv, extVars>>
    /\ txt' = [txt EXCEPT !.pc = "idle", !.ret = "TXTIO_E_OK"]

\* The ELF reader is not in use.
ElfIdle == ElfInit /\ host = "ELF_LITTLE_ENDIAN" /\ str.guard = 0

ScanInit ==
    /\ ElfIdle
    /\ txt \in {TxtStart(m) : m \in TxtInitialMemories}
    /\ s19 = S19Start
    /\ cs = CsStart(<<>>)
    /\ fp = FpStart
    /\ cv = CvStart(16, 0)
    /\ ExtIdle

ScanNext ==
    \/ \E len \in NameLens, f \in TextFiles \cup {NoFile}, mode \in Modes : TxtIo_Init(len, f, mode)
    \/ TxtIo_ScanFile
    \/ \E crash \in BOOLEAN : TxtIo_ScanLine(crash)
    \/ TxtIo_ScanReturn

\* The program of src/src/yol-elf-info.c that scans a text file.
SpecScan == ScanInit /\ [][ScanNext]_vars

(***************************************************************************)
(* TxtIo_ScanFile on a stream whose reads fail (a device that went away, a *)
(* directory opened as a file): fgets returns NULL and sets the error      *)
(* indicator of the stream, not its end-of-file indicator.                 *)
(***************************************************************************)
\* Invocations of the callout that are recorded, and the value at which the
\* model lets the 32-bit lineNumber of the callout wrap.
MaxCallouts == 3

LineNumberWrap == 8

\* From now on every read from the stream fails.
StreamFails ==
    /\ txt.fault = "none"
    /\ txt.pc = "loop"
    /\ ~txt.eof
    /\ ~txt.err
    /\ txt' = [txt EXCEPT !.err = TRUE]
    /\ UNCHANGED <<elfVars, s19, cs, fp, cv, extVars>>

\* One pass of the loop of TxtIo_ScanFile in which fgets fails: feof is
\* false, buf stays as it was and the callout is invoked with it.
TxtIo_ScanLineFailed(crash) ==
    /\ txt.fault = "none"
    /\ txt.pc = "loop"
    /\ ~txt.eof
    /\ txt.err
    /\ UNCHANGED <<elfVars, cs, fp, cv, extVars>>
    /\ \E r \in {S19Io_LineScanning(txt.buf, s19, Len(txt.calls) + 1)} :
       \E log \in {Len(txt.calls) < MaxCallouts} :
          /\ crash => r.report # <<>>
          /\ txt' = [txt EXCEPT !.calls = IF log THEN Append(@, txt.buf) ELSE @,
                                !.rets = IF log /\ ~crash THEN Append(@, r.ret) ELSE @,
                                !.fault = IF crash THEN "undefined" ELSE @]
          /\ s19' = [state |-> r.state, lineNumber |-> r.lineNumber % LineNumberWrap,
                     reports |-> IF log /\ ~crash THEN s19.reports \o r.report
                                 ELSE s19.reports]

ScanFairNext ==
    \/ \E len \in NameLens, f \in TextFiles \cup {NoFile}, mode \in Modes : TxtIo_Init(len, f, mode)
    \/ TxtIo_ScanFile
    \/ \E crash \in BOOLEAN : TxtIo_ScanLine(crash)
    \/ StreamFails
    \/ \E crash \in BOOLEAN : TxtIo_ScanLineFailed(crash)
    \/ TxtIo_ScanReturn

\* The program that scans a text file, on a stream that may fail: a scan
\* that has begun goes on with its next pass or returns.
SpecScanFair ==
    /\ ScanInit
    /\ [][ScanFairNext]_vars
    /\ WF_vars(\E crash \in BOOLEAN : TxtIo_ScanLine(crash))
    /\ WF_vars(\E crash \in BOOLEAN : TxtIo_ScanLineFailed(crash))
    /\ WF_vars(TxtIo_ScanReturn)

(***************************************************************************)
(* The checksum of S19IO.c.                                                *)
(***************************************************************************)
\* A faulty variant of S19IO_CalculateChecksum whose loop leaves out the
\* last byte.
RECURSIVE ChecksumSkipLast(_, _)
ChecksumSkipLast(data, len) ==
    IF len <= 1 THEN 0
    ELSE (ChecksumSkipLast(data, len - 1) + data[len - 1]) % 256

\* uint8_t S19IO_CalculateChecksum(data, len): sum+=data[idx] for idx from 0
\* to len - 1 in an 8-bit sum.
RECURSIVE S19IO_CalculateChecksum(_, _)
S19IO_CalculateChecksum(data, len) ==
    IF len = 0 THEN 0
    ELSE (S19IO_CalculateChecksum(data, len - 1) + data[len]) % 256

\* Longest byte sequence tried, besides the record of the example.
MaxChecksumLen == 3

\* Byte values the sequences are made of.
ByteSamples == {0, 1, 127, 128, 255}

\* Count 0x13, address 0x1000 and the data "Hello HEX world!".
HelloRecord ==
    <<19, 16, 0, 72, 101, 108, 108, 111, 32, 72, 69, 88, 32, 119, 111, 114, 108, 100, 33>>

ChecksumInputs ==
    {HelloRecord} \cup UNION {[1..n -> ByteSamples] : n \in 1..MaxChecksumLen}

\* The byte b with bit k inverted.
FlipBit(b, k) == IF (b \div 2^k) % 2 = 1 THEN b - 2^k ELSE b + 2^k

\* The call S19IO_CalculateChecksum(cs.data, length of cs.data).
CalculateChecksum ==
    /\ ~cs.done
    /\ cs' = [cs EXCEPT !.done = TRUE, !.sum = S19IO_CalculateChecksum(cs.data, Len(cs.data))]
    /\ UNCHANGED <<elfVars, txt, s19, fp, cv, extVars>>

\* One bit of the bytes is corrupted after their checksum was taken.
CorruptBit(i, k) ==
    /\ cs.done
    /\ cs.flip = <<>>
    /\ i \in 1..Len(cs.data)
    /\ cs' = [data |-> [cs.data EXCEPT ![i] = FlipBit(@, k)], sum |-> 0, done |-> FALSE,
              orig |-> cs.data, origSum |-> cs.sum, flip |-> <<i, k>>]
    /\ UNCHANGED <<elfVars, txt, s19, fp, cv, extVars>>

ChecksumInit ==
    /\ ElfIdle
    /\ txt = TxtStart([stream |-> NULL, file_opened |-> FALSE, guard |-> 0,
                       mode |-> TXTIO_INVALID_MODE])
    /\ s19 = S19Start
    /\ cs \in {CsStart(d) : d \in ChecksumInputs}
    /\ fp = FpStart
    /\ cv = CvStart(16, 0)
    /\ ExtIdle

ChecksumNext ==
    \/ CalculateChecksum
    \/ \E i \in 1..Len(HelloRecord), k \in 0..7 : CorruptBit(i, k)

\* S19IO_CalculateChecksum applied to byte sequences, before and after one
\* bit of them is inverted.
SpecChecksum == ChecksumInit /\ [][ChecksumNext]_vars

(***************************************************************************)
(* FormatParser of hexfile.cpp.  A string is the sequence of its           *)
(* characters.                                                             *)
(***************************************************************************)
LENGTH_EXPR == <<"\\", "(", "?", "<", "l", "e", "n", "g", "t", "h", ">", "[", "0", "-", "9", "a", "-", "z", "A", "-", "Z", "]">>

TYPE_EXPR == <<"\\", "(", "?", "<", "t", "y", "p", "e", ">", "\\", "d", "\\">>

ADDRESS_EXPR == <<"\\", "(", "?", "<", "a", "d", "d", "r", "e", "s", "s", ">", "[", "0", "-", "9", "a", "-", "z", "A", "-", "Z", "]">>

DATA_EXPR == <<"\\", "(", "?", "<", "c", "h", "u", "n", "k", ">", "[", "0", "-", "9", "a", "-", "z", "A", "-", "Z", "]", "+">>

CHECKSUM_EXPR == <<"\\", "(", "?", "<", "c", "h", "e", "c", "k", "s", "u", "m", ">", "[", "0", "-", "9", "a", "-", "z", "A", "-", "Z", "]">>

ADDR_CHECKSUM_EXPR == <<"\\", "(", "?", "<", "a", "d", "d", "r", "C", "h", "e", "c", "k", "s", "u", "m", ">", "[", "0", "-", "9", "a", "-", "z", "A", "-", "Z", "]">>

MAP_CHAR_TO_GROUP ==
    [c \in {"L", "T", "A", "D", "C", "B"} |->
        CASE c = "L" -> LENGTH_EXPR [] c = "T" -> TYPE_EXPR [] c = "A" -> ADDRESS_EXPR
          [] c = "D" -> DATA_EXPR [] c = "C" -> CHECKSUM_EXPR [] c = "B" -> ADDR_CHECKSUM_EXPR]

DigitChars == <<"0", "1", "2", "3", "4", "5", "6", "7", "8", "9">>

\* std::to_string(n)
RECURSIVE to_string(_)
to_string(n) ==
    IF n < 10 THEN <<DigitChars[n + 1]>>
    ELSE to_string(n \div 10) \o <<DigitChars[(n % 10) + 1]>>

\* std::string(length, ch)
Repeat(length, ch) == [i \in 1..length |-> ch]

\* A faulty variant of FormatEmpty that takes a format of blanks for empty.
FormatBlank(format) == \A i \in 1..Len(format) : format[i] = " "

\* m_format.empty()
FormatEmpty(format) == Len(format) = 0

\* std::string translate_format(const std::string& group)
translate_format(group) ==
    LET type_code == group[1]
        length == Len(group)
    IN  IF type_code \in DOMAIN MAP_CHAR_TO_GROUP
        THEN IF type_code # "D"
             THEN MAP_CHAR_TO_GROUP[type_code] \o <<"{">> \o to_string(length) \o <<"}", "\\", ")">>
             ELSE MAP_CHAR_TO_GROUP[type_code] \o <<"\\", ")">>
        ELSE IF type_code = " "
             THEN <<"\\", "s", "{">> \o to_string(length) \o <<"}">>
             ELSE Repeat(length, type_code)

\* The first loop of parse() from character i of the format on:
\* previous_ch, the group collected so far and the groups closed so far.  The
\* result is the groups handed to translate_format, the one that is closed
\* after the loop included.
RECURSIVE GroupsFrom(_, _, _, _, _)
GroupsFrom(format, i, previous_ch, group, closed) ==
    IF i > Len(format) THEN (IF group # <<>> THEN Append(closed, group) ELSE closed)
    ELSE IF format[i] # previous_ch /\ group # <<>>
    THEN GroupsFrom(format, i + 1, format[i], <<format[i]>>, Append(closed, group))
    ELSE GroupsFrom(format, i + 1, format[i], Append(group, format[i]), closed)

(***************************************************************************)
(* std::regex, ECMAScript grammar, as far as the patterns of parse() use   *)
(* it.  A pattern is compiled into items [kind, ch, min, max]: an atom     *)
(* and how often it repeats (max -1: without limit).                       *)
(***************************************************************************)
LetterChars ==
    {"a", "b", "c", "d", "e", "f", "g", "h", "i", "j", "k", "l", "m", "n", "o", "p", "q",
     "r", "s", "t", "u", "v", "w", "x", "y", "z", "A", "B", "C", "D", "E", "F", "G", "H",
     "I", "J", "K", "L", "M", "N", "O", "P", "Q", "R", "S", "T", "U", "V", "W", "X", "Y", "Z"}

SpaceChars == {" ", "\t", "\n", "\r"}

IsDigitChar(c) == \E d \in 1..10 : DigitChars[d] = c

\* The value of a sequence of decimal digits.
RECURSIVE DigitsValue(_)
DigitsValue(digits) ==
    IF digits = <<>> THEN 0
    ELSE 10 * DigitsValue(SubSeq(digits, 1, Len(digits) - 1))
           + (CHOOSE d \in 0..9 : DigitChars[d + 1] = digits[Len(digits)])

\* The atom that starts at position i of the pattern rx, and the position
\* after it.  An unescaped parenthesis (the patterns of parse() close none)
\* or a quantifier without atom is an error of the pattern.
RegexAtomAt(rx, i) ==
    IF rx[i] = "\\"
    THEN IF i = Len(rx) THEN [kind |-> "error", ch |-> "", next |-> i]
         ELSE [kind |-> IF rx[i + 1] = "d" THEN "digit"
                        ELSE IF rx[i + 1] = "s" THEN "space" ELSE "char",
               ch |-> rx[i + 1], next |-> i + 2]
    ELSE IF rx[i] = "["
    THEN IF i + 10 <= Len(rx)
            /\ SubSeq(rx, i, i + 10) = <<"[", "0", "-", "9", "a", "-", "z", "A", "-", "Z", "]">>
         THEN [kind |-> "alnum", ch |-> "", next |-> i + 11]
         ELSE [kind |-> "error", ch |-> "", next |-> i]
    ELSE IF rx[i] = "." THEN [kind |-> "any", ch |-> "", next |-> i + 1]
    ELSE IF rx[i] \in {"(", ")", "?", "+", "*", "{"} THEN [kind |-> "error", ch |-> "", next |-> i]
    ELSE [kind |-> "char", ch |-> rx[i], next |-> i + 1]

\* The quantifier at position i of rx, if there is one, and the position
\* after it.
RegexQuantAt(rx, i) ==
    IF i > Len(rx) THEN [min |-> 1, max |-> 1, next |-> i]
    ELSE IF rx[i] = "?" THEN [min |-> 0, max |-> 1, next |-> i + 1]
    ELSE IF rx[i] = "+" THEN [min |-> 1, max |-> -1, next |-> i + 1]
    ELSE IF rx[i] = "*" THEN [min |-> 0, max |-> -1, next |-> i + 1]
    ELSE IF rx[i] = "{" /\ \E j \in i + 2..Len(rx) :
                              rx[j] = "}" /\ \A d \in i + 1..j - 1 : IsDigitChar(rx[d])
    THEN LET j == CHOOSE j \in i + 2..Len(rx) :
                     rx[j] = "}" /\ \A d \in i + 1..j - 1 : IsDigitChar(rx[d])
             n == DigitsValue(SubSeq(rx, i + 1, j - 1))
         IN  [min |-> n, max |-> n, next |-> j + 1]
    ELSE [min |-> 1, max |-> 1, next |-> i]

\* Compiling the pattern rx from position i on: the items, or an error
\* (std::regex_error).  The assertion ^ takes no character.
RECURSIVE RegexCompile(_, _, _)
RegexCompile(rx, i, items) ==
    IF i > Len(rx) THEN [error |-> FALSE, items |-> items]
    ELSE IF rx[i] = "^" THEN RegexCompile(rx, i + 1, items)
    ELSE LET atom == RegexAtomAt(rx, i)
             quant == RegexQuantAt(rx, atom.next)
         IN  IF atom.kind = "error" THEN [error |-> TRUE, items |-> items]
             ELSE RegexCompile(rx, quant.next,
                               Append(items, [kind |-> atom.kind, ch |-> atom.ch,
                                              min |-> quant.min, max |-> quant.max]))

\* The atom of an item matches the character c.
RegexAtomAccepts(item, c) ==
    CASE item.kind = "char" -> c = item.ch
      [] item.kind = "digit" -> IsDigitChar(c)
      [] item.kind = "space" -> c \in SpaceChars
      [] item.kind = "alnum" -> IsDigitChar(c) \/ c \in LetterChars
      [] item.kind = "any" -> c \notin {"\n", "\r"}

\* The items from t on match the text from position pos to its end.
RECURSIVE RegexMatches(_, _, _, _)
RegexMatches(items, t, text, pos) ==
    IF t > Len(items) THEN pos = Len(text) + 1
    ELSE LET rest == Len(text) - pos + 1
             hi == IF items[t].max = -1 \/ items[t].max > rest THEN rest ELSE items[t].max
         IN  \E k \in items[t].min..hi :
                /\ \A j \in 0..k - 1 : RegexAtomAccepts(items[t], text[pos + j])
                /\ RegexMatches(items, t + 1, text, pos + k)

\* std::regex_match(text, std::regex{rx}): the pattern matches the whole text.
regex_match(text, rx) ==
    \E c \in {RegexCompile(rx, 1, <<>>)} : ~c.error /\ RegexMatches(c.items, 1, text, 1)

\* The concatenation of the strings of a sequence.
RECURSIVE Concat(_)
Concat(strings) == IF strings = <<>> THEN <<>> ELSE strings[1] \o Concat(Tail(strings))

\* Longest format string tried.
MaxFormatLen == 3

\* The characters the format strings are made of.
FormatChars == {"L", "T", "D", " ", ":", ".", "("}

FormatInputs == UNION {[1..n -> FormatChars] : n \in 0..MaxFormatLen}

\* explicit FormatParser(const std::string& format, ...)
FormatParser(format) ==
    /\ ~fp.called
    /\ fp' = IF FormatEmpty(format)
             THEN [fp EXCEPT !.format = format, !.called = TRUE,
                             !.thrown = "std::invalid_argument"]
             ELSE [fp EXCEPT !.format = format, !.called = TRUE, !.constructed = TRUE]
    /\ UNCHANGED <<elfVars, txt, s19, cs, cv, extVars>>

\* void parse() const noexcept: the groups, their translations, and the
\* construction of std::regex from "^" and the translations; an exception
\* of that constructor ends the program.
parse ==
    /\ fp.constructed
    /\ fp.status = "none"
    /\ \E groups \in {GroupsFrom(fp.format, 1, "NUL", <<>>, <<>>)} :
       \E fragments \in {[k \in 1..Len(groups) |-> translate_format(groups[k])]} :
       \E regx \in {RegexCompile(<<"^">> \o Concat(fragments), 1, <<>>)} :
          fp' = [fp EXCEPT !.groups = groups, !.fragments = fragments,
                           !.status = IF regx.error THEN "terminate" ELSE "parsed"]
    /\ UNCHANGED <<elfVars, txt, s19, cs, cv, extVars>>

FormatInit ==
    /\ ElfIdle
    /\ txt = TxtStart([stream |-> NULL, file_opened |-> FALSE, guard |-> 0,
                       mode |-> TXTIO_INVALID_MODE])
    /\ s19 = S19Start
    /\ cs = CsStart(<<>>)
    /\ fp = FpStart
    /\ cv = CvStart(16, 0)
    /\ ExtIdle

FormatNext ==
    \/ \E format \in FormatInputs : FormatParser(format)
    \/ parse

\* A program that constructs a FormatParser and calls parse(), as main of
\* hexfile.cpp does.
SpecFormat == FormatInit /\ [][FormatNext]_vars

(***************************************************************************)
(* Callers of ElfIo_Convert16U and ElfIo_Convert32U.                       *)
(***************************************************************************)
\* How often a caller converts its value.
MaxConversions == 2

\* The halves the 32-bit values tried are made of.
WordSamples == {0, 1, 128, 255, 256, 4660, 32768, 43707, 48042, 52445, 56780, 65535}

ConvertInputs ==
    {CvStart(16, w) : w \in 0..65535}
        \cup {CvStart(32, <<h, l>>) : h \in WordSamples, l \in WordSamples}

\* value = ElfIo_Convert16U(value)
Convert16U ==
    /\ cv.width = 16
    /\ cv.count < MaxConversions
    /\ cv' = [cv EXCEPT !.value = ElfIo_Convert16U(cv.value), !.count = cv.count + 1]
    /\ UNCHANGED <<elfVars, txt, s19, cs, fp, extVars>>

\* value = ElfIo_Convert32U(value)
Convert32U ==
    /\ cv.width = 32
    /\ cv.count < MaxConversions
    /\ cv' = [cv EXCEPT !.value = ElfIo_Convert32U(cv.value), !.count = cv.count + 1]
    /\ UNCHANGED <<elfVars, txt, s19, cs, fp, extVars>>

ConvertInit ==
    /\ ElfIdle
    /\ txt = TxtStart([stream |-> NULL, file_opened |-> FALSE, guard |-> 0,
                       mode |-> TXTIO_INVALID_MODE])
    /\ s19 = S19Start
    /\ cs = CsStart(<<>>)
    /\ fp = FpStart
    /\ cv \in ConvertInputs
    /\ ExtIdle

ConvertNext ==
    \/ Convert16U
    \/ Convert32U

SpecConvert == ConvertInit /\ [][ConvertNext]_vars

(***************************************************************************)
(* Address-space model: Section and Image.  The sources of this part of    *)
(* the repository are not among the files of the model; it follows the     *)
(* description of the component (sections 3 and 4.4 of the design) and the *)
(* examples of docs/README.rst.                                            *)
(***************************************************************************)
\* Section(start_address, data)
Section(start_address, data) == [start_address |-> start_address, data |-> data]

\* The address after the last byte of a section.
SectionEnd(sec) == sec.start_address + Len(sec.data)

\* The address ranges of two sections share an address.
Overlaps(a, b) == a.start_address < SectionEnd(b) /\ b.start_address < SectionEnd(a)

\* A faulty variant of InsertOrdered that appends the section.
InsertAtEnd(sections, sec) == Append(sections, sec)

\* The section put at its place in the order of the start addresses.
InsertOrdered(sections, sec) ==
    LET k == Cardinality({i \in 1..Len(sections) :
                             sections[i].start_address < sec.start_address})
    IN  SubSeq(sections, 1, k) \o <<sec>> \o SubSeq(sections, k + 1, Len(sections))

\* The sections k and k + 1 made one, where the second begins at the end of
\* the first.
MergeAt(sections, k) ==
    IF k >= 1 /\ k < Len(sections) /\ SectionEnd(sections[k]) = sections[k + 1].start_address
    THEN SubSeq(sections, 1, k - 1)
            \o <<Section(sections[k].start_address, sections[k].data \o sections[k + 1].data)>>
            \o SubSeq(sections, k + 2, Len(sections))
    ELSE sections

\* A faulty variant of JoinAround that looks at the section before the new
\* one only.
JoinBefore(sections, k) == MergeAt(sections, k - 1)

\* The section at position k, newly inserted, merged with the section after
\* it and with the section before it as far as they are adjacent.
JoinAround(sections, k) == MergeAt(MergeAt(sections, k), k - 1)

\* A faulty variant of OverlapsAny that takes a section for overlapping only
\* if its start address lies in a section of the image.
StartInsideAny(sections, sec) ==
    \E i \in 1..Len(sections) :
        /\ sections[i].start_address <= sec.start_address
        /\ sec.start_address < SectionEnd(sections[i])

OverlapsAny(sections, sec) == \E i \in 1..Len(sections) : Overlaps(sections[i], sec)

\* Image::insert(section, join): the sections afterwards and the error.
Image_insert(sections, sec, join) ==
    IF OverlapsAny(sections, sec)
    THEN [sections |-> sections, error |-> "OverlapError"]
    ELSE LET ordered == InsertOrdered(sections, sec)
             k == CHOOSE k \in 1..Len(ordered) : ordered[k] = sec
         IN  [sections |-> IF join THEN JoinAround(ordered, k) ELSE ordered,
              error |-> "none"]

(***************************************************************************)
(* Record codec for the S-record family (section 4.3 of the design, the    *)
(* record description in S19IO.c and the files shown in docs/README.rst).  *)
(* A line is a sequence of characters; a record has a type, an address and *)
(* payload bytes.                                                          *)
(***************************************************************************)
HexDigits == <<"0", "1", "2", "3", "4", "5", "6", "7", "8", "9", "A", "B", "C", "D", "E", "F">>

IsHexDigit(c) == \E d \in 1..16 : HexDigits[d] = c

\* The two hexadecimal digits of a byte.
HexByte(b) == <<HexDigits[(b \div 16) + 1], HexDigits[(b % 16) + 1]>>

RECURSIVE HexBytes(_)
HexBytes(bytes) == IF bytes = <<>> THEN <<>> ELSE HexByte(bytes[1]) \o HexBytes(Tail(bytes))

HexDigitValue(c) == (CHOOSE d \in 1..16 : HexDigits[d] = c) - 1

\* The bytes that 2 * n hexadecimal digits stand for.
UnhexBytes(chars) ==
    [i \in 1..Len(chars) \div 2 |->
        16 * HexDigitValue(chars[2 * i - 1]) + HexDigitValue(chars[2 * i])]

\* The record formats of the family: the type code and the bytes of the
\* address field.
SrecFormats == {[type |-> 1, width |-> 2], [type |-> 2, width |-> 3], [type |-> 3, width |-> 4]}

\* An address (below 2^31) as four bytes, the most significant first.
AddressBytes4(address) ==
    <<address \div 16777216, (address \div 65536) % 256, (address \div 256) % 256, address % 256>>

\* A faulty variant of AddressField that leaves out the leading zero bytes.
AddressUnpadded(address, width) ==
    LET b == AddressBytes4(address)
        first == IF \E i \in 1..3 : b[i] # 0 THEN CHOOSE i \in 1..3 : b[i] # 0 /\ \A j \in 1..i - 1 : b[j] = 0
                 ELSE 4
    IN  SubSeq(b, first, 4)

\* The address padded to the width of the format.
AddressField(address, width) == SubSeq(AddressBytes4(address), 5 - width, 4)

RECURSIVE AddressValue(_)
AddressValue(bytes) ==
    IF bytes = <<>> THEN 0
    ELSE 256 * AddressValue(SubSeq(bytes, 1, Len(bytes) - 1)) + bytes[Len(bytes)]

RECURSIVE SumBytes(_)
SumBytes(bytes) == IF bytes = <<>> THEN 0 ELSE bytes[1] + SumBytes(Tail(bytes))

\* The checksum of the family: the one's complement of the sum of the bytes
\* of count, address and payload.
RecordChecksum(bytes) == 255 - (SumBytes(bytes) % 256)

\* The address and the payload fit the widths of the format.
Fits(record, format) ==
    /\ record.type = format.type
    /\ \A i \in 1..4 - format.width : AddressBytes4(record.address)[i] = 0
    /\ format.width + Len(record.data) + 1 <= 255

\* encode(record, spec) -> line
encode(record, format) ==
    LET body == <<(format.width + Len(record.data) + 1) % 256>>
                   \o AddressField(record.address, format.width) \o record.data
    IN  <<"S", DigitChars[format.type + 1]>> \o HexBytes(body) \o HexByte(RecordChecksum(body))

\* decode(line, spec) -> Record, or the error
decode(line, format) ==
    IF \/ Len(line) < 2 * (format.width + 2) + 2
       \/ Len(line) % 2 # 0
       \/ line[1] # "S"
       \/ line[2] # DigitChars[format.type + 1]
       \/ \E i \in 3..Len(line) : ~IsHexDigit(line[i])
    THEN [error |-> "InvalidRecordFormat"]
    ELSE LET bytes == UnhexBytes(SubSeq(line, 3, Len(line)))
             body == SubSeq(bytes, 1, Len(bytes) - 1)
         IN  IF bytes[1] # Len(bytes) - 1 THEN [error |-> "InvalidRecordFormat"]
             ELSE IF bytes[Len(bytes)] # RecordChecksum(body) THEN [error |-> "ChecksumError"]
             ELSE [error |-> "none", type |-> format.type,
                   address |-> AddressValue(SubSeq(body, 2, 1 + format.width)),
                   data |-> SubSeq(body, 2 + format.width, Len(body))]

\* Bytes of payload per record written by dumps.
RowLength == 2

\* The records of one section from offset on.
RECURSIVE DumpSection(_, _, _)
DumpSection(sec, offset, format) ==
    IF offset >= Len(sec.data) THEN <<>>
    ELSE LET n == IF Len(sec.data) - offset < RowLength THEN Len(sec.data) - offset
                  ELSE RowLength
         IN  <<encode([type |-> format.type, address |-> sec.start_address + offset,
                       data |-> SubSeq(sec.data, offset + 1, offset + n)], format)>>
                \o DumpSection(sec, offset + n, format)

\* dumps("srec", image): the lines of the sections in their order.
RECURSIVE dumps(_, _)
dumps(sections, format) ==
    IF sections = <<>> THEN <<>>
    ELSE DumpSection(sections[1], 0, format) \o dumps(Tail(sections), format)

\* loads("srec", lines): the records of the lines, inserted into an image
\* that joins; acc is the image so far.
RECURSIVE loads(_, _, _)
loads(lines, format, acc) ==
    IF lines = <<>> \/ acc.error # "none" THEN acc
    ELSE LET r == decode(lines[1], format)
         IN  IF r.error # "none" THEN [sections |-> acc.sections, error |-> r.error]
             ELSE loads(Tail(lines), format,
                        Image_insert(acc.sections, Section(r.address, r.data), TRUE))

\* Longest payload of the records tried, and longest section.
MaxPayload == 2

MaxSectionLen == 4

RecordInputs ==
    [type : 1..3,
     address : {0, 4096, 65535, 65536, 16777215, 16777216, 2147483647},
     data : {SubSeq(HelloRecord, 4, 19)}
               \cup UNION {[1..n -> {0, 72, 255}] : n \in 0..MaxPayload}]

\* The bytes of the sections tried: the byte at address a is a mod 256.
SectionInputs ==
    {Section(a, [i \in 1..n |-> (a + i - 1) % 256]) :
        a \in {256, 258, 260, 4096}, n \in 1..MaxSectionLen}

\* Images: sections in the order of their addresses that do not overlap.
ImageInputs ==
    {<<>>} \cup {<<a>> : a \in SectionInputs}
        \cup {p \in SectionInputs \X SectionInputs : SectionEnd(p[1]) <= p[2].start_address}

Encode ==
    /\ rc.kind = "record"
    /\ rc.op = "none"
    /\ rc' = [rc EXCEPT !.line = encode(rc.record, rc.format), !.op = "encode"]
    /\ UNCHANGED <<elfVars, libVars, img, nm, utl>>

Decode ==
    /\ rc.op = "encode"
    /\ rc' = [rc EXCEPT !.decoded = decode(rc.line, rc.format), !.op = "decode"]
    /\ UNCHANGED <<elfVars, libVars, img, nm, utl>>

Dumps ==
    /\ rc.kind = "image"
    /\ rc.op = "none"
    /\ rc' = [rc EXCEPT !.lines = dumps(rc.sections, rc.format), !.op = "dumps"]
    /\ UNCHANGED <<elfVars, libVars, img, nm, utl>>

Loads ==
    /\ rc.op = "dumps"
    /\ rc' = [rc EXCEPT !.loaded = loads(rc.lines, rc.format,
                                         [sections |-> <<>>, error |-> "none"]),
                        !.op = "loads"]
    /\ UNCHANGED <<elfVars, libVars, img, nm, utl>>

CodecInit ==
    /\ ElfIdle
    /\ LibIdle
    /\ rc \in {RcStart("record", f, r, <<>>) : f \in SrecFormats, r \in RecordInputs}
                \cup {RcStart("image", f, RcIdle.record, i) : f \in SrecFormats, i \in ImageInputs}
    /\ img = ImgIdle
    /\ nm = NmIdle
    /\ utl = UtlIdle

CodecNext ==
    \/ Encode
    \/ Decode
    \/ Dumps
    \/ Loads

\* Callers that encode a record and decode the line, or dump an image and
\* load the lines.
SpecCodec == CodecInit /\ [][CodecNext]_vars

\* Insertions per image.
MaxInserts == 3

\* The sections inserted: those of SectionInputs and the two of the example
\* of docs/README.rst.
InsertInputs ==
    SectionInputs \cup {Section(256, [i \in 1..8 |-> i]), Section(264, [i \in 1..8 |-> i + 8])}

\* img.insert(section, join)
Insert(sec, join) ==
    /\ img.count < MaxInserts
    /\ \E res \in {Image_insert(img.sections, sec, join)} :
          img' = [img EXCEPT !.sections = res.sections, !.error = res.error,
                             !.before = img.sections, !.op = "insert",
                             !.arg = <<sec, join>>, !.count = img.count + 1,
                             !.allJoin = img.allJoin /\ join]
    /\ UNCHANGED <<elfVars, libVars, rc, nm, utl>>

ImageInit ==
    /\ ElfIdle
    /\ LibIdle
    /\ rc = RcIdle
    /\ img = ImgStart(<<>>)
    /\ nm = NmIdle
    /\ utl = UtlIdle

ImageNext == \E sec \in InsertInputs, join \in BOOLEAN : Insert(sec, join)

\* A caller that builds an Image by insertions.
SpecImage == ImageInit /\ [][ImageNext]_vars

(***************************************************************************)
(* Typed access (section 4.4 of the design, docs/README.rst).  A 32-bit    *)
(* value is a pair of 16-bit halves, the upper first.                      *)
(***************************************************************************)
Endiannesses == {"big", "little"}

\* The four bytes of a uint32 in the byte order asked for.
NumericBytes(value, endianness) ==
    IF endianness = "big"
    THEN <<HIBYTE(value[1]), LOBYTE(value[1]), HIBYTE(value[2]), LOBYTE(value[2])>>
    ELSE <<LOBYTE(value[2]), HIBYTE(value[2]), LOBYTE(value[1]), HIBYTE(value[1])>>

\* Section::write_numeric(offset, value, uint32, endianness): the data
\* afterwards and the error.
write_numeric(data, offset, value, endianness) ==
    IF offset + 4 > Len(data) THEN [data |-> data, error |-> "OutOfRange"]
    ELSE [data |-> [i \in 1..Len(data) |->
                       IF i > offset /\ i <= offset + 4
                       THEN NumericBytes(value, endianness)[i - offset] ELSE data[i]],
          error |-> "none"]

\* A faulty variant of read_numeric that reads in big-endian order whatever
\* it is asked for.
ReadNumericBig(data, offset, endianness) ==
    IF offset + 4 > Len(data) THEN [value |-> <<>>, error |-> "OutOfRange"]
    ELSE [value |-> <<MAKEWORD(data[offset + 1], data[offset + 2]),
                      MAKEWORD(data[offset + 3], data[offset + 4])>>,
          error |-> "none"]

\* Section::read_numeric(offset, uint32, endianness): the value and the error.
read_numeric(data, offset, endianness) ==
    IF offset + 4 > Len(data) THEN [value |-> <<>>, error |-> "OutOfRange"]
    ELSE [value |-> IF endianness = "big"
                    THEN <<MAKEWORD(data[offset + 1], data[offset + 2]),
                           MAKEWORD(data[offset + 3], data[offset + 4])>>
                    ELSE <<MAKEWORD(data[offset + 4], data[offset + 3]),
                           MAKEWORD(data[offset + 2], data[offset + 1])>>,
          error |-> "none"]

\* Length of the section accessed, and writes per section.
NumericSectionLen == 8

MaxWrites == 1

NumericValues == {4128, 12352, 32769} \X {4128, 12352, 32769}

\* sec.write_numeric(offset, value, "uint32", endianness)
WriteNumeric(offset, value, endianness) ==
    /\ img.count < MaxWrites
    /\ \E res \in {write_numeric(img.sections[1].data, offset, value, endianness)} :
          img' = [img EXCEPT !.sections = <<Section(img.sections[1].start_address, res.data)>>,
                             !.before = img.sections, !.error = res.error,
                             !.op = "write_numeric", !.arg = <<offset, value, endianness>>,
                             !.count = img.count + 1, !.value = <<>>]
    /\ UNCHANGED <<elfVars, libVars, rc, nm, utl>>

\* sec.read_numeric(offset, "uint32", endianness), after a write
ReadNumeric(offset, endianness) ==
    /\ img.op = "write_numeric"
    /\ \E res \in {read_numeric(img.sections[1].data, offset, endianness)} :
          img' = [img EXCEPT !.before = <<img.before, img.arg, img.error>>,
                             !.error = res.error, !.op = "read_numeric",
                             !.arg = <<offset, endianness>>, !.value = res.value]
    /\ UNCHANGED <<elfVars, libVars, rc, nm, utl>>

NumericInit ==
    /\ ElfIdle
    /\ LibIdle
    /\ rc = RcIdle
    /\ img = ImgStart(<<Section(4096, [i \in 1..NumericSectionLen |-> 0])>>)
    /\ nm = NmIdle
    /\ utl = UtlIdle

NumericNext ==
    \/ \E offset \in 0..NumericSectionLen, value \in NumericValues, endianness \in Endiannesses :
          WriteNumeric(offset, value, endianness)
    \/ \E offset \in 0..NumericSectionLen, endianness \in Endiannesses :
          ReadNumeric(offset, endianness)

\* A caller that writes a number into a section of zero bytes and reads a
\* number from it.
SpecNumeric == NumericInit /\ [][NumericNext]_vars

(***************************************************************************)
(* The tables of names of the reader and of its reporting code.            *)
(***************************************************************************)

\* C arrays count from 0: entry index of a table, and "?" for whatever lies
\* outside the table.
NameAt(table, index) == IF index \in 0..(Len(table) - 1) THEN table[index + 1] ELSE "?"

\* One read of a table: the field value that selected the entry, the table
\* and the number of its entries, the index used and the name found.
Lookup(label, table, field, index) ==
    [table |-> label, size |-> Len(table), field |-> field, index |-> index,
     name |-> NameAt(table, index)]

Elf_MachineNames ==
    <<
     "Unknown machine.",
     "No machine.",
     "AT&T WE 32100.",
     "SPARC.",
     "Intel 80386.",
     "Motorola 68000.",
     "Motorola 88000.",
     "Reserved for future use.",
     "Intel 80860.",
     "MIPS I Architecture.",
     "IBM System/370 Processor.",
     "MIPS RS3000 Little-endian.",
     "Reserved for future use.",
     "Reserved for future use.",
     "Reserved for future use.",
     "Reserved for future use.",
     "Hewlett-Packard PA-RISC.",
     "Reserved for future use.",
     "Fujitsu VPP500.",
     "Enhanced instruction set SPARC.",
     "Intel 80960.",
     "PowerPC.",
     "64-bit PowerPC.",
     "Reserved for future use.",
     "Reserved for future use.",
     "Reserved for future use.",
     "Reserved for future use.",
     "Reserved for future use.",
     "Reserved for future use.",
     "Reserved for future use.",
     "Reserved for future use.",
     "Reserved for future use.",
     "Reserved for future use.",
     "Reserved for future use.",
     "Reserved for future use.",
     "Reserved for future use.",
     "Reserved for future use.",
     "NEC V800.",
     "Fujitsu FR20.",
     "TRW RH-32.",
     "Motorola RCE.",
     "Advanced RISC Machines ARM.",
     "Digital Alpha.",
     "Hitachi SH.",
     "SPARC Version 9.",
     "Siemens Tricore embedded processor.",
     "Argonaut RISC Core, Argonaut Technologies Inc.",
     "Hitachi H8/300.",
     "Hitachi H8/300H.",
     "Hitachi H8S.",
     "Hitachi H8/500.",
     "Intel IA-64 processor architecture.",
     "Stanford MIPS-X.",
     "Motorola ColdFire.",
     "Motorola M68HC12.",
     "Fujitsu MMA Multimedia Accelerator.",
     "Siemens PCP.",
     "Sony nCPU embedded RISC processor.",
     "Denso NDR1 microprocessor.",
     "Motorola Star*Core processor.",
     "Toyota ME16 processor. ",
     "STMicroelectronics ST100 processor.",
     "Advanced Logic Corp. TinyJ embedded processor family.",
     "Reserved for future use.",
     "Reserved for future use.",
     "Reserved for future use.",
     "Reserved for future use.",
     "Siemens FX66 microcontroller.",
     "STMicroelectronics ST9+ 8/16 bit microcontroller.",
     "STMicroelectronics ST7 8-bit microcontroller.",
     "Motorola MC68HC16 Microcontroller.",
     "Motorola MC68HC11 Microcontroller.",
     "Motorola MC68HC08 Microcontroller.",
     "Motorola MC68HC05 Microcontroller.",
     "Silicon Graphics SVx.",
     "STMicroelectronics ST19 8-bit microcontroller.",
     "Digital VAX.",
     "Axis Communications 32-bit embedded processor.",
     "Infineon Technologies 32-bit embedded processor.",
     "Element 14 64-bit DSP Processor.",
     "LSI Logic 16-bit DSP Processor.",
     "Donald Knuth's educational 64-bit processor.",
     "Harvard University machine-independent object files .",
     "SiTera Prism."
    >>

ELF_NUM_OF_MACHINES == Len(Elf_MachineNames) - 1

\* The comparison of ElfIo_GetMachineName with > in place of >=.
TableIndexInclusive(e_machine) == IF e_machine > ELF_NUM_OF_MACHINES THEN 0 ELSE e_machine + 1

\* table_index of ElfIo_GetMachineName, from the e_machine field (uint16_t).
table_index(e_machine) == IF e_machine >= ELF_NUM_OF_MACHINES THEN 0 ELSE e_machine + 1

MachineLookup(e_machine) ==
    Lookup("Elf_MachineNames", Elf_MachineNames, e_machine, table_index(e_machine))

\* The tables of ElfInfo_PrintHeader.
HeaderTypes ==
    <<"Processor-specific.", "No file type.", "Relocatable file.",
      "Executable file.", "Shared object file.", "Core file.">>

classes == <<"Invalid class.", "32-bit objects.", "64-bit objects.">>

encodings == <<"Invalid data encoding", "LITTLE", "BIG">>

\* idx of ElfInfo_PrintHeader for the file type (uint16_t), the class and
\* the data encoding (uint8_t each).
HeaderTypeIdx(type_id) == IF type_id > 4 THEN 0 ELSE type_id + 1

ClassIdx(clss) == IF clss > 2 THEN 0 ELSE clss

EncodingIdx(data) == IF data > 2 THEN 0 ELSE data

\* The table of ElfInfo_PrintProgramTable and its idx for a p_type (a 32-bit
\* word <<high, low>>), cast to uint16_t.
ProgramTypes == <<"NO TYPE", "RELOC", "EXEC", "SHARED", "CORE">>

ProgramTypeIdx(p_type) == IF p_type[1] > 0 \/ p_type[2] > 4 THEN 0 ELSE p_type[2] % 65536

\* The tables of ElfInfo_GetSectionType.
SectionTypes ==
    <<"NULL", "PROGBITS", "SYMTAB", "STRTAB", "RELA", "HASH",
      "DYNAMIC", "NOTE", "NOBITS", "REL", "SHLIB", "DYNSYM">>

Others == <<"LOPROC", "HIPROC", "LOUSER", "HIUSER", "UNKNOWN">>

SHT_LOPROC == <<28672, 0>>

SHT_HIPROC == <<32767, 65535>>

SHT_LOUSER == <<32768, 0>>

SHT_HIUSER == <<65535, 65535>>

\* The read ElfInfo_GetSectionType makes for a section type (a 32-bit word).
SectionTypeLookup(section_type) ==
    IF section_type[1] = 0 /\ section_type[2] >= 0 /\ section_type[2] <= 11
    THEN Lookup("SectionTypes", SectionTypes, section_type, section_type[2])
    ELSE Lookup("Others", Others, section_type,
                CASE section_type = SHT_LOPROC -> 0
                  [] section_type = SHT_HIPROC -> 1
                  [] section_type = SHT_LOUSER -> 2
                  [] section_type = SHT_HIUSER -> 3
                  [] OTHER -> 4)

\* The tables of GetSymbolBinding and GetSymbolType and their limits.
bindings == <<"LOCAL", "GLOBAL", "WEAK", "PROC", "UNK">>

SymbolTypes == <<"NOTYPE", "OBJECT", "FUNC", "SECTION", "FILE", "PROC", "UNKNOWN">>

STB_LOCAL == 0

STB_WEAK == 2

STB_LOPROC == 13

STB_HIPROC == 15

STT_NOTYPE == 0

STT_FILE == 4

STT_LOPROC == 13

STT_HIPROC == 15

BindingIdx(value) ==
    IF value >= STB_LOCAL /\ value <= STB_WEAK THEN value
    ELSE IF value >= STB_LOPROC /\ value <= STB_HIPROC THEN 3
    ELSE 4

SymbolTypeIdx(value) ==
    IF value >= STT_NOTYPE /\ value <= STT_FILE THEN value
    ELSE IF value >= STT_LOPROC /\ value <= STT_HIPROC THEN 5
    ELSE 6

\* ElfIo_GetMachineName of a reader whose header holds e_machine.
ElfIo_GetMachineName(e_machine) ==
    /\ nm.op = "none"
    /\ nm' = [nm EXCEPT !.op = "ElfIo_GetMachineName", !.lookups =
              <<MachineLookup(e_machine)>>]
    /\ UNCHANGED <<elfVars, libVars, rc, img, utl>>

\* ElfInfo_PrintHeader of a reader in read mode: the names of the file type,
\* the machine, the class and the data encoding, in the order of the printf
\* calls.
ElfInfo_PrintHeader(type_id, e_machine, clss, data) ==
    /\ nm.op = "none"
    /\ nm' = [nm EXCEPT !.op = "ElfInfo_PrintHeader", !.lookups =
              <<Lookup("types", HeaderTypes, type_id, HeaderTypeIdx(type_id)),
                MachineLookup(e_machine),
                Lookup("classes", classes, clss, ClassIdx(clss)),
                Lookup("encodings", encodings, data, EncodingIdx(data))>>]
    /\ UNCHANGED <<elfVars, libVars, rc, img, utl>>

\* ElfInfo_PrintProgramTable: one name for each program header.
ElfInfo_PrintProgramTable(p_types) ==
    /\ nm.op = "none"
    /\ nm' = [nm EXCEPT !.op = "ElfInfo_PrintProgramTable", !.lookups =
              [i \in DOMAIN p_types |->
                  Lookup("types", ProgramTypes, p_types[i], ProgramTypeIdx(p_types[i]))]]
    /\ UNCHANGED <<elfVars, libVars, rc, img, utl>>

ElfInfo_GetSectionType(section_type) ==
    /\ nm.op = "none"
    /\ nm' = [nm EXCEPT !.op = "ElfInfo_GetSectionType", !.lookups =
              <<SectionTypeLookup(section_type)>>]
    /\ UNCHANGED <<elfVars, libVars, rc, img, utl>>

GetSymbolBinding(value) ==
    /\ nm.op = "none"
    /\ nm' = [nm EXCEPT !.op = "GetSymbolBinding", !.lookups =
              <<Lookup("bindings", bindings, value, BindingIdx(value))>>]
    /\ UNCHANGED <<elfVars, libVars, rc, img, utl>>

GetSymbolType(value) ==
    /\ nm.op = "none"
    /\ nm' = [nm EXCEPT !.op = "GetSymbolType", !.lookups =
              <<Lookup("types", SymbolTypes, value, SymbolTypeIdx(value))>>]
    /\ UNCHANGED <<elfVars, libVars, rc, img, utl>>

\* The field values: every 16-bit e_machine and every byte for the symbol
\* fields; for the header report and the 32-bit types the values around each
\* limit of the code.
MaxProgramHeaders == 2

HalfValues == 0..65535

ByteValues == 0..255

HalfSamples == (0..6) \cup {82, 83, 84, 255, 256, 65535}

IdentSamples == (0..3) \cup {255}

WordPairSamples ==
    {<<h, l>> : h \in {0, 1, 28672, 32767, 32768, 65535}, l \in (0..12) \cup {65534, 65535}}

ProgramTypeInputs ==
    UNION {[1..n -> WordPairSamples] : n \in 0..MaxProgramHeaders}

\* The calls a program can be about to make.
NamesInputs ==
    \/ \E e_machine \in HalfValues : nm = NmStart("ElfIo_GetMachineName", <<e_machine>>)
    \/ \E fields \in HalfSamples \X HalfSamples \X IdentSamples \X IdentSamples :
          nm = NmStart("ElfInfo_PrintHeader", fields)
    \/ \E p_types \in ProgramTypeInputs : nm = NmStart("ElfInfo_PrintProgramTable", <<p_types>>)
    \/ \E section_type \in WordPairSamples :
          nm = NmStart("ElfInfo_GetSectionType", <<section_type>>)
    \/ \E value \in ByteValues : nm = NmStart("GetSymbolBinding", <<value>>)
    \/ \E value \in ByteValues : nm = NmStart("GetSymbolType", <<value>>)

NamesInit ==
    /\ ElfIdle
    /\ LibIdle
    /\ rc = RcIdle
    /\ img = ImgIdle
    /\ utl = UtlIdle
    /\ NamesInputs

NamesNext ==
    \/ nm.call = "ElfIo_GetMachineName" /\ ElfIo_GetMachineName(nm.args[1])
    \/ nm.call = "ElfInfo_PrintHeader"
          /\ ElfInfo_PrintHeader(nm.args[1], nm.args[2], nm.args[3], nm.args[4])
    \/ nm.call = "ElfInfo_PrintProgramTable" /\ ElfInfo_PrintProgramTable(nm.args[1])
    \/ nm.call = "ElfInfo_GetSectionType" /\ ElfInfo_GetSectionType(nm.args[1])
    \/ nm.call = "GetSymbolBinding" /\ GetSymbolBinding(nm.args[1])
    \/ nm.call = "GetSymbolType" /\ GetSymbolType(nm.args[1])

\* A program that looks up the names for the fields of a file in one call.
SpecNames == NamesInit /\ [][NamesNext]_vars

(***************************************************************************)
(* The bit routines of Utl.c.                                              *)
(***************************************************************************)

\* Bit n of a word, and the bitwise operators of C on 16-bit operands.
Bit(w, n) == (w \div (2 ^ n)) % 2

RECURSIVE Bitwise(_, _, _, _)
Bitwise(operator, a, b, n) ==
    IF n = 16 THEN 0
    ELSE (CASE operator = "&" -> Bit(a, n) * Bit(b, n)
            [] operator = "|" -> IF Bit(a, n) + Bit(b, n) > 0 THEN 1 ELSE 0
            [] operator = "^" -> (Bit(a, n) + Bit(b, n)) % 2) * (2 ^ n)
         + Bitwise(operator, a, b, n + 1)

And16(a, b) == Bitwise("&", a, b, 0)

Or16(a, b) == Bitwise("|", a, b, 0)

Xor16(a, b) == Bitwise("^", a, b, 0)

Not16(a) == 65535 - a

PowerOfTwoTab16 ==
    <<1, 2, 4, 8, 16, 32, 64, 128, 256, 512, 1024, 2048, 4096, 8192, 16384, 32768>>

\* What the read of PowerOfTwoTab16[num] can give: the entry, or, beyond the
\* sixteen entries, whatever the memory behind the table holds.
BeyondTable == {0, 1, 4660, 32768, 65535}

TableRead(num) == IF num < Len(PowerOfTwoTab16) THEN {PowerOfTwoTab16[num + 1]} ELSE BeyondTable

\* The bit routines with a bit number: each reads PowerOfTwoTab16[num].
Utl_BitGet(w, num) ==
    /\ utl.op = "none"
    /\ \E entry \in TableRead(num) :
          utl' = [utl EXCEPT !.op = "Utl_BitGet", !.index = num,
                             !.result = (And16(w, entry) # 0)]
    /\ UNCHANGED <<elfVars, libVars, rc, img, nm>>

Utl_BitSet(w, num) ==
    /\ utl.op = "none"
    /\ \E entry \in TableRead(num) :
          utl' = [utl EXCEPT !.op = "Utl_BitSet", !.index = num, !.result = Or16(w, entry)]
    /\ UNCHANGED <<elfVars, libVars, rc, img, nm>>

Utl_BitReset(w, num) ==
    /\ utl.op = "none"
    /\ \E entry \in TableRead(num) :
          utl' = [utl EXCEPT !.op = "Utl_BitReset", !.index = num,
                             !.result = And16(w, Not16(entry))]
    /\ UNCHANGED <<elfVars, libVars, rc, img, nm>>

Utl_BitToggle(w, num) ==
    /\ utl.op = "none"
    /\ \E entry \in TableRead(num) :
          utl' = [utl EXCEPT !.op = "Utl_BitToggle", !.index = num, !.result = Xor16(w, entry)]
    /\ UNCHANGED <<elfVars, libVars, rc, img, nm>>

\* w |= w >> n, for the steps of Utl_BitGetHighest.
Smear(w, n) == Or16(w, w \div (2 ^ n))

\* Utl_BitGetHighest without its last step w |= w >> 8.
BitGetHighestToBit7(w) ==
    LET s == Smear(Smear(Smear(w, 1), 2), 4)
    IN  Xor16(s, s \div 2)

Utl_BitGetHighest(w) ==
    LET s == Smear(Smear(Smear(Smear(w, 1), 2), 4), 8)
    IN  Xor16(s, s \div 2)

\* (~w + 1) & w, the sum taken in int and the result cut to 16 bits.
Utl_BitGetLowest(w) == And16((Not16(w) + 1) % 65536, w)

\* w & (w - 1); for w = 0 the int -1 has all sixteen low bits set.
Utl_BitResetLowest(w) == And16(w, (w + 65535) % 65536)

\* The loop of Utl_Log2, while (num >>= 1) res++, with res a uint8_t.
RECURSIVE Log2Loop(_, _, _)
Log2Loop(num, res, loops) ==
    LET shifted == num \div 2
    IN  IF shifted # 0
        THEN Log2Loop(shifted, (res + 1) % 256, loops + 1)
        ELSE [res |-> res, loops |-> loops]

Utl_Log2(num) == Log2Loop(num, 0, 0)

\* A call of a routine that takes a word only.
BitGetHighest(w) ==
    /\ utl.op = "none"
    /\ utl' = [utl EXCEPT !.op = "Utl_BitGetHighest", !.result = Utl_BitGetHighest(w)]
    /\ UNCHANGED <<elfVars, libVars, rc, img, nm>>

BitGetLowest(w) ==
    /\ utl.op = "none"
    /\ utl' = [utl EXCEPT !.op = "Utl_BitGetLowest", !.result = Utl_BitGetLowest(w)]
    /\ UNCHANGED <<elfVars, libVars, rc, img, nm>>

BitResetLowest(w) ==
    /\ utl.op = "none"
    /\ utl' = [utl EXCEPT !.op = "Utl_BitResetLowest", !.result = Utl_BitResetLowest(w)]
    /\ UNCHANGED <<elfVars, libVars, rc, img, nm>>

Log2(w) ==
    /\ utl.op = "none"
    /\ utl' = [utl EXCEPT !.op = "Utl_Log2", !.result = Utl_Log2(w).res,
                          !.loops = Utl_Log2(w).loops]
    /\ UNCHANGED <<elfVars, libVars, rc, img, nm>>

\* The words passed with a bit number: no bit, one bit, all bits, all but
\* one, and mixed patterns.  The routines without a bit number are called
\* with every 16-bit word.
BitWords ==
    {0, 65535, 4660, 43690, 21845}
    \cup {PowerOfTwoTab16[i] : i \in 1..16}
    \cup {65535 - PowerOfTwoTab16[i] : i \in 1..16}

BitRoutines == {"Utl_BitGet", "Utl_BitSet", "Utl_BitReset", "Utl_BitToggle"}

WordRoutines == {"Utl_BitGetHighest", "Utl_BitGetLowest", "Utl_BitResetLowest", "Utl_Log2"}

UtlInit ==
    /\ ElfIdle
    /\ LibIdle
    /\ rc = RcIdle
    /\ img = ImgIdle
    /\ nm = NmIdle
    /\ \/ \E routine \in BitRoutines, w \in BitWords, num \in ByteValues :
             utl = UtlStart(routine, w, num)
       \/ \E routine \in WordRoutines, w \in HalfValues : utl = UtlStart(routine, w, 0)

UtlNext ==
    \/ utl.call = "Utl_BitGet" /\ Utl_BitGet(utl.w, utl.num)
    \/ utl.call = "Utl_BitSet" /\ Utl_BitSet(utl.w, utl.num)
    \/ utl.call = "Utl_BitReset" /\ Utl_BitReset(utl.w, utl.num)
    \/ utl.call = "Utl_BitToggle" /\ Utl_BitToggle(utl.w, utl.num)
    \/ utl.call = "Utl_BitGetHighest" /\ BitGetHighest(utl.w)
    \/ utl.call = "Utl_BitGetLowest" /\ BitGetLowest(utl.w)
    \/ utl.call = "Utl_BitResetLowest" /\ BitResetLowest(utl.w)
    \/ utl.call = "Utl_Log2" /\ Log2(utl.w)

\* A program that calls one bit routine.
SpecUtl == UtlInit /\ [][UtlNext]_vars

(***************************************************************************)
(* Properties.                                                             *)
(***************************************************************************)
\* The fields of the instance, what they point to, and the resources held.
Instance == <<str, hdr, phdrs, shdrs, sects, heap, streams, nextBlock, fd>>

\* The caller's ElfIo_Struct was zeroed, or an ElfIo_Init has got past its
\* checks and written it: none of its fields is what the stack happened to hold.
Initialised == str.stream # WILD

\* C1: ElfIo_Init checks, in this order, instance already open (guard set and
\* file_opened true) -> ELFIO_E_STATE, mode neither ELFIO_READ nor ELFIO_WRITE
\* -> ELFIO_E_VALUE, name longer than 255 characters -> ELFIO_E_LIMIT (255 is
\* accepted); when one of them fails no file is opened and nothing of the
\* instance, its stream, header or tables is modified.
C1_InitPreconditionOrder ==
    [][op' = "ElfIo_Init" =>
          LET isOpen  == str.guard = SizeofElfIoStruct /\ str.file_opened = TRUE
              badMode == args'.mode \notin {ELFIO_READ, ELFIO_WRITE}
              tooLong == args'.len > 255
          IN  /\ (ret' = "ELFIO_E_STATE") <=> isOpen
              /\ (ret' = "ELFIO_E_VALUE") <=> (~isOpen /\ badMode)
              /\ (ret' = "ELFIO_E_LIMIT") <=> (~isOpen /\ ~badMode /\ tooLong)
              /\ (isOpen \/ badMode \/ tooLong) => (UNCHANGED Instance /\ io' = {})
              /\ (~isOpen /\ ~badMode /\ args'.len = 255) =>
                    ret' \in {"ELFIO_E_OK", "ELFIO_E_FILEIO", "ELFIO_E_INVALID", "none"}
    ]_vars

\* A second ElfIo_Init on an instance opened in read mode, with a name that is
\* too long and a mode that is invalid: the first check decides.
C1_Witness ==
    /\ op = "ElfIo_Init" /\ ret = "ELFIO_E_STATE"
    /\ opened /\ str.mode = ELFIO_READ /\ str.stream \in streams
    /\ args.len = ELFIO_MAX_FILENAME_LEN + 1
    /\ args.mode = 3

\* C2: ElfIo_Deinit on an instance that is not open (never successfully
\* opened, or closed by an earlier ElfIo_Deinit) returns ELFIO_E_STATE and
\* releases nothing.  (Stated for an instance whose memory is initialised.)
C2_DeinitNotOpen ==
    [][(op' = "ElfIo_Deinit" /\ ~opened /\ Initialised) =>
          /\ ret' = "ELFIO_E_STATE"
          /\ fault' = "none"
          /\ heap' = heap
          /\ streams' = streams
    ]_vars

\* C3: the ElfIo_Deinit that ends a run begun by a successful ElfIo_Init
\* frees every buffer allocated since that ElfIo_Init exactly once and closes
\* the stream, whatever table and section reads came in between.  (Stated for
\* read mode and runs in which the section header table has been read.)
C3_DeinitReleasesAll ==
    [][(op' = "ElfIo_Deinit" /\ opened /\ str.mode = ELFIO_READ /\ shtRead) =>
          /\ ret' = "ELFIO_E_OK"
          /\ fault' = "none"
          /\ \A blk \in heap' \cup streams' : blk < initBase
    ]_vars

\* C4: ElfIo_ReadProgramTable, ElfIo_ReadSectionHeaderTable and
\* ElfIo_ReadSections, called on an instance that is not open in read mode, or
\* (ElfIo_ReadSections) before ElfIo_ReadSectionHeaderTable has succeeded,
\* return ELFIO_E_STATE without seeking or reading the file and without using
\* section header entries that were never read.  (Stated for an instance that
\* a successful ElfIo_Init has opened, in either mode.)
C4_MisuseChecked ==
    [][(/\ op' \in {"ElfIo_ReadProgramTable", "ElfIo_ReadSectionHeaderTable",
                    "ElfIo_ReadSections"}
        /\ opened
        /\ \/ str.mode # ELFIO_READ
           \/ (op' = "ElfIo_ReadSections" /\ ~shtRead)) =>
          /\ ret' = "ELFIO_E_STATE"
          /\ fault' = "none"
          /\ io' = {}
          /\ UNCHANGED Instance
    ]_vars

\* The byte order the bytes b of a file declare in e_ident[EI_DATA].
DeclaredEncoding(b) ==
    IF b[6] = ELFDATA2LSB THEN "ELF_LITTLE_ENDIAN" ELSE "ELF_BIG_ENDIAN"

\* The header the bytes b hold, read in the byte order they declare: the
\* logical values, the same on every host.
LogicalEhdr(b) == ReadEhdr(b, DeclaredEncoding(b))

\* The instance is open in read mode.
OpenForRead == opened /\ str.mode = ELFIO_READ

\* C5: after a successful ElfIo_Init in read mode every multi-byte header
\* field has been swapped exactly once if the host byte order differs from the
\* declared encoding and not at all otherwise; the swap comes before e_phnum
\* and e_shnum size the tables; and no later operation on the open instance
\* swaps a header field again.
C5_HeaderSwappedOnce ==
    OpenForRead =>
        LET b == FileBytes(fd.file)
        IN  /\ hdrConversions = IF host # DeclaredEncoding(b) THEN 1 ELSE 0
            /\ hdr = LogicalEhdr(b)
            /\ Len(phdrs) = LogicalEhdr(b).e_phnum
            /\ Len(shdrs) = LogicalEhdr(b).e_shnum
            /\ Len(sects) = LogicalEhdr(b).e_shnum

\* Sections have been read, after the tables, from a file of the other byte
\* order whose header fields change under a swap.
C5_Witness ==
    /\ OpenForRead /\ shtRead
    /\ host # DeclaredEncoding(FileBytes(fd.file))
    /\ op = "ElfIo_ReadSections" /\ ret = "ELFIO_E_OK"
    /\ hdrConversions = 1
    /\ hdr.e_entry # ElfIo_Convert32U(hdr.e_entry)
    /\ hdr.e_shnum # ElfIo_Convert16U(hdr.e_shnum)

\* C6: for the same file bytes a little-endian and a big-endian host hold the
\* same logical values in the header, in every program header entry and in
\* every section header entry that has been read, however often the tables are
\* read: each equals the value the bytes hold in their declared byte order.
C6_HostIndependentTables ==
    OpenForRead =>
        LET b == FileBytes(fd.file)
            declared == DeclaredEncoding(b)
            logical == LogicalEhdr(b)
        IN  /\ hdr = logical
            /\ \A i \in DOMAIN phdrs :
                  \/ IsUninit(phdrs[i])
                  \/ phdrs[i] = ReadPhdr(b, logical.e_phoff[2] + (i - 1) * 32, declared)
            /\ \A i \in DOMAIN shdrs :
                  \/ IsUninit(shdrs[i])
                  \/ shdrs[i] = ReadShdr(b, logical.e_shoff[2] + (i - 1) * 40, declared)

\* Both tables are in memory on a host of the other byte order, the section
\* header table just read while section data of an earlier read is loaded.
C6_Witness ==
    /\ OpenForRead
    /\ host # DeclaredEncoding(FileBytes(fd.file))
    /\ op = "ElfIo_ReadSectionHeaderTable" /\ ret = "ELFIO_E_OK"
    /\ Len(phdrs) > 0 /\ ~IsUninit(phdrs[1])
    /\ Len(shdrs) > 1 /\ ~IsUninit(shdrs[2])
    /\ shdrs[2].sh_offset # ElfIo_Convert32U(shdrs[2].sh_offset)
    /\ sects[2].length = shdrs[2].sh_size

\* C7: for a file whose declared encoding differs from the host byte order,
\* ElfIO_GetSymbol returns a symbol whose every multi-byte field (st_name,
\* st_value, st_size and the 16-bit st_shndx) equals the value a host of the
\* file's own byte order reads from the section's buffer.
C7_SymbolLogical ==
    (op = "ElfIO_GetSymbol" /\ fault = "none" /\ host # str.encoding) =>
        sym = ReadSym(sects[args.section + 1].bytes, args.idx * ELF_SYM_TABLE_SIZE,
                      str.encoding)

\* The last ElfIo_Init was in read mode and got past its precondition checks.
InitReadAttempt ==
    /\ op = "ElfIo_Init"
    /\ args.mode = ELFIO_READ
    /\ ret \notin {"ELFIO_E_STATE", "ELFIO_E_VALUE", "ELFIO_E_LIMIT"}

\* C8: ElfIo_Init in read mode returns ELFIO_E_FILEIO if the file cannot be
\* opened or the header cannot be read in full; with the header read it returns
\* ELFIO_E_INVALID if the first four bytes are not 0x7F 'E' 'L' 'F' or the
\* data-encoding byte is neither ELFDATA2LSB nor ELFDATA2MSB, and then no header
\* field is swapped and no program header, section header or section table is
\* allocated.
C8_InitHeaderErrors ==
    InitReadAttempt =>
        LET b == FileBytes(args.file)
            unreadable == args.file = NoFile \/ Len(b) < 52
            invalid == \/ <<b[1], b[2], b[3], b[4]>> # <<127, 69, 76, 70>>
                       \/ b[6] \notin {ELFDATA2LSB, ELFDATA2MSB}
        IN  /\ (ret = "ELFIO_E_FILEIO") <=> unreadable
            /\ (ret = "ELFIO_E_INVALID") <=> (~unreadable /\ invalid)
            /\ (ret = "ELFIO_E_INVALID") =>
                  /\ hdrConversions = 0
                  /\ hdr = ReadEhdr(b, host)
                  /\ phdrs = <<>> /\ shdrs = <<>> /\ sects = <<>>
                  /\ {blk \in heap : blk >= initBase} = {str.file_name, str.header}

\* A file with a wrong magic byte and header fields that change under a swap
\* was given to a host of the other byte order.
C8_Witness ==
    /\ InitReadAttempt /\ ret = "ELFIO_E_INVALID"
    /\ args.file = "badmagic"
    /\ host # DeclaredEncoding(FileBytes(args.file))
    /\ hdr.e_shnum # ElfIo_Convert16U(hdr.e_shnum)

\* C9: after ElfIo_ReadSections returns ELFIO_E_OK, for every section below
\* e_shnum (whose header entry has been read): if sh_type is not SHT_NOBITS and
\* sh_size > 0, sections[i].length equals sh_size and the data holds exactly the
\* sh_size bytes of the file from sh_offset; otherwise no seek and no read was
\* issued for the section and its length is 0.  (Stated for an instance open
\* in read mode.)
C9_SectionContent ==
    (OpenForRead /\ op = "ElfIo_ReadSections" /\ ret = "ELFIO_E_OK") =>
        LET b == FileBytes(fd.file)
        IN  \A i \in 1..hdr.e_shnum :
                LET sh == shdrs[i]
                    off == sh.sh_offset[2]
                    size == sh.sh_size[2]
                IN  \/ IsUninit(sh)
                    \/ /\ sh.sh_type # <<0, SHT_NOBITS>> /\ sh.sh_size # <<0, 0>>
                       /\ sects[i].length = sh.sh_size
                       /\ sh.sh_offset[1] = 0 /\ sh.sh_size[1] = 0
                       /\ off + size <= Len(b)
                       /\ sects[i].bytes = SubSeq(b, off + 1, off + size)
                    \/ /\ (sh.sh_type = <<0, SHT_NOBITS>> \/ sh.sh_size = <<0, 0>>)
                       /\ sects[i].length = <<0, 0>>
                       /\ \A c \in io : c.sec # i - 1

\* C10: ElfIo_Init in read mode returns ELFIO_E_OK only if (e_phnum = 0 or
\* e_phentsize = 32) and (e_shnum = 0 or e_shentsize = 40), compared after
\* endianness correction; on a mismatch the assertion stops the program, and
\* no table exists with an entry size other than that of its structure.
C10_EntrySizesAsserted ==
    /\ (InitReadAttempt /\ ret \in {"ELFIO_E_OK", "none"}) =>
          LET logical == LogicalEhdr(FileBytes(args.file))
              sizesOk == /\ (logical.e_phnum = 0 \/ logical.e_phentsize = 32)
                         /\ (logical.e_shnum = 0 \/ logical.e_shentsize = 40)
          IN  /\ (ret = "ELFIO_E_OK") <=> sizesOk
              /\ (fault = "assert") <=> ~sizesOk
              /\ ~sizesOk => ~opened
    /\ OpenForRead =>
          /\ Len(phdrs) > 0 => LogicalEhdr(FileBytes(fd.file)).e_phentsize = 32
          /\ Len(shdrs) > 0 => LogicalEhdr(FileBytes(fd.file)).e_shentsize = 40

\* The assertion stopped ElfIo_Init on a file whose e_phentsize is 32 as the
\* host reads it and another value once corrected.
C10_Witness ==
    /\ InitReadAttempt /\ fault = "assert"
    /\ F16(FileBytes(args.file), 42, host) = ELF_PHDR_SIZE
    /\ LogicalEhdr(FileBytes(args.file)).e_phentsize # ELF_PHDR_SIZE
    /\ LogicalEhdr(FileBytes(args.file)).e_phnum > 0

\* The sections ElfIo_PrintSymbols has to list: those of type SHT_SYMTAB (2)
\* or SHT_DYNSYM (11), by 0-based index.
SymbolSections ==
    {i \in 0..hdr.e_shnum - 1 : shdrs[i + 1].sh_type \in {<<0, 2>>, <<0, 11>>}}

\* The symbol at index j of section i as the file declares it.
LogicalSym(i, j) == ReadSym(sects[i + 1].bytes, j * 16, str.encoding)

\* The buffer of section i is loaded and has sh_size bytes.
BufferLoaded(i) ==
    /\ i + 1 \in DOMAIN sects
    /\ sects[i + 1].data \in heap
    /\ shdrs[i + 1].sh_size[1] = 0
    /\ Len(sects[i + 1].bytes) = shdrs[i + 1].sh_size[2]

\* A zero byte ends the name at offset off of the loaded section table.
NameEnds(table, off) ==
    /\ table[1] = 0 /\ table[2] < hdr.e_shnum /\ BufferLoaded(table[2])
    /\ off[1] = 0
    /\ \E k \in off[2] + 1 .. Len(sects[table[2] + 1].bytes) : sects[table[2] + 1].bytes[k] = 0

\* Section i can be listed: its entries have 16 bytes, its buffer is loaded
\* and the name of each of its symbols ends inside the section sh_link.
Listable(i) ==
    /\ shdrs[i + 1].sh_entsize = <<0, 16>>
    /\ BufferLoaded(i)
    /\ \A j \in 0..(shdrs[i + 1].sh_size[2] \div 16) - 1 :
          NameEnds(shdrs[i + 1].sh_link, LogicalSym(i, j).st_name)

\* The instance is open for reading and its section header table is read.
TablesRead ==
    /\ OpenForRead /\ shtRead
    /\ ~IsUninit(hdr)
    /\ Len(shdrs) = hdr.e_shnum
    /\ \A i \in 1..hdr.e_shnum : ~IsUninit(shdrs[i])

\* C11: ElfIo_PrintSymbols visits exactly the sections whose sh_type is
\* SHT_SYMTAB or SHT_DYNSYM; it requires sh_entsize = 16 of each (a section
\* with another entry size stops the program in the assertion, before a
\* symbol of it is read); of a section whose buffer of sh_size bytes is loaded
\* it reads exactly the symbols 0 .. sh_size div 16 - 1, each of them wholly
\* inside the buffer, and looks their names up in the section sh_link.
C11_SymbolListing ==
    (op = "ElfIo_PrintSymbols" /\ TablesRead) =>
        /\ listing.visited \subseteq SymbolSections
        /\ (\A i \in SymbolSections : Listable(i)) =>
              /\ fault = "none" /\ ret = "ELFIO_E_OK"
              /\ listing.visited = SymbolSections
              /\ listing.reads =
                    UNION {{<<i, j>> : j \in 0..(shdrs[i + 1].sh_size[2] \div 16) - 1} :
                           i \in SymbolSections}
              /\ \A r \in listing.reads : (r[2] + 1) * 16 <= Len(sects[r[1] + 1].bytes)
              /\ listing.names =
                    {<<shdrs[r[1] + 1].sh_link, LogicalSym(r[1], r[2]).st_name>> :
                       r \in listing.reads}
        /\ \A i \in SymbolSections :
              (/\ shdrs[i + 1].sh_entsize # <<0, 16>>
               /\ \A k \in SymbolSections : k < i => Listable(k))
                 => /\ fault = "assert"
                    /\ i \in listing.visited
                    /\ \A r \in listing.reads : r[1] # i

\* A dynamic symbol table of 40 bytes was listed on a host of the other byte
\* order: two symbols were read.
C11_Witness ==
    /\ op = "ElfIo_PrintSymbols" /\ TablesRead /\ ret = "ELFIO_E_OK"
    /\ host # str.encoding
    /\ \E i \in listing.visited :
          /\ shdrs[i + 1].sh_type = <<0, SHT_DYNSYM>>
          /\ shdrs[i + 1].sh_size = <<0, 40>>
          /\ {r \in listing.reads : r[1] = i} = {<<i, 0>>, <<i, 1>>}
          /\ <<<<0, 2>>, <<0, 1>>>> \in listing.names

\* The symbol table with entries of 8 bytes stopped the listing.
C11_WitnessEntSize ==
    /\ op = "ElfIo_PrintSymbols" /\ TablesRead /\ fault = "assert"
    /\ listing.visited # {}

\* C12: the name lookups never give access outside the loaded buffer of the
\* string table: when the section has no zero byte at or after offset idx
\* (idx at or beyond its length included), ElfInfo_GetSectionName and
\* ElfInfo_GetSymbolName report an error instead of returning the address.
\* The statement is made for an instance that is open for reading with its
\* section header table read and the designated section loaded.
C12_NameLookupChecked ==
    (/\ op \in {"ElfInfo_GetSectionName", "ElfInfo_GetSymbolName"}
     /\ TablesRead /\ fault = "none"
     /\ args.section < hdr.e_shnum /\ BufferLoaded(args.section)
     /\ ~NameEnds(<<0, args.section>>, <<0, args.idx>>))
        => ret # "pointer"

\* The lines of the file the text reader has open.
ScannedLines == TextLines(txt.file).lines

\* C13: TxtIo_ScanFile hands the lines of the file to the callout in file
\* order and once each: the k-th invocation receives the k-th line, there are
\* never more invocations than lines, and when the scan has returned there
\* have been exactly as many (none for an empty file), whatever the callout
\* returned and whether or not a newline ends the last line.
C13_LinesInOrderOnce ==
    (txt.op = "TxtIo_ScanFile" /\ txt.fault = "none") =>
        /\ Len(txt.calls) <= Len(ScannedLines)
        /\ \A k \in 1..Len(txt.calls) :
              k <= Len(ScannedLines) => txt.calls[k].text = ScannedLines[k]
        /\ (txt.pc = "idle" /\ txt.ret = "TXTIO_E_OK") => Len(txt.calls) = Len(ScannedLines)

\* C14: the line number S19Io_LineScanning reports with an unexpected record
\* type is the position, within the running scan, of the line it was handed:
\* n for the n-th invocation of this scan, also in a scan that is not the
\* first of the program.
C14_ReportedLineNumber ==
    \A i \in 1..Len(s19.reports) : s19.reports[i].line = s19.reports[i].call

\* The file is a header record S0, data records S1, S2 or S3, optionally a
\* record count S5, and a termination record S7, S8 or S9.
WellFormedSrec(lines) ==
    /\ Len(lines) >= 2
    /\ \A k \in 1..Len(lines) : Len(lines[k]) = 2 /\ lines[k][1] = "S"
    /\ lines[1][2] = "0"
    /\ lines[Len(lines)][2] \in {"7", "8", "9"}
    /\ \A k \in 2..Len(lines) - 1 :
          \/ lines[k][2] \in {"1", "2", "3"}
          \/ lines[k][2] = "5" /\ k = Len(lines) - 1

\* C15: scanning such a file with a scanner that starts in START (the first
\* scan of the program), S19Io_LineScanning returns true for every line, and
\* after the termination record the scanner is in its state FINISHED.
C15_WellFormedAccepted ==
    (/\ txt.op = "TxtIo_ScanFile" /\ txt.fault = "none" /\ txt.scans = 1
     /\ WellFormedSrec(ScannedLines))
        => /\ \A k \in 1..Len(txt.rets) : k <= Len(ScannedLines) => txt.rets[k] = TRUE
           /\ Len(txt.rets) >= Len(ScannedLines) => s19.state = "FINISHED"

\* The sum of the bytes of a sequence.
RECURSIVE ByteSum(_)
ByteSum(bytes) == IF bytes = <<>> THEN 0 ELSE bytes[1] + ByteSum(Tail(bytes))

\* C16: the checksum of an S-record is the low byte of the one's complement
\* of the sum of its count, address and data bytes, 0xFF - (sum mod 256); for
\* count 0x13, address 0x1000 and the data "Hello HEX world!" that is 0x7A,
\* and S19IO_CalculateChecksum returns this value for these bytes.
C16_ChecksumValue ==
    (cs.done /\ cs.flip = <<>> /\ cs.data = HelloRecord) =>
        /\ 255 - (ByteSum(cs.data) % 256) = 122
        /\ cs.sum = 122

\* C17: for a byte sequence of length 1 to 255 and any single bit of it,
\* S19IO_CalculateChecksum returns different values before and after the
\* bit is inverted.
C17_SingleBitDetected ==
    (cs.done /\ cs.flip # <<>>) =>
        /\ Len(cs.orig) \in 1..255
        /\ cs.sum # cs.origSum

\* The top bit of the last of three bytes was inverted where the 8-bit sum
\* of the bytes had overflowed, and the checksum of the result was taken.
C17_Witness ==
    /\ cs.done /\ cs.flip = <<3, 7>>
    /\ cs.orig = <<255, 128, 128>>
    /\ cs.data = <<255, 128, 0>>
    /\ cs.origSum = 255 /\ cs.sum = 127

(***************************************************************************)
(* FormatParser (SpecFormat).                                              *)
(***************************************************************************)
\* The letters of the fields that have a fixed width.
FieldLetters == {"L", "T", "A", "C", "B"}

\* A field of n characters, as it stands in a record.
FieldText(n) == Repeat(n, "1")

\* The groups of parse() are the maximal runs of identical characters of the
\* format, in order, and each has its fragment.
GroupsAreMaximalRuns ==
    /\ Concat(fp.groups) = fp.format
    /\ \A k \in 1..Len(fp.groups) :
          /\ fp.groups[k] # <<>>
          /\ \A j \in 1..Len(fp.groups[k]) : fp.groups[k][j] = fp.groups[k][1]
    /\ \A k \in 1..Len(fp.groups) - 1 : fp.groups[k][1] # fp.groups[k + 1][1]
    /\ Len(fp.fragments) = Len(fp.groups)

\* The fragment is the pattern the group stands for.
FragmentMeansGroup(group, fragment) ==
    IF group[1] \in FieldLetters
    THEN /\ regex_match(FieldText(Len(group)), fragment)
         /\ ~regex_match(FieldText(Len(group) + 1), fragment)
         /\ ~regex_match(FieldText(Len(group) - 1), fragment)
    ELSE IF group[1] = "D"
    THEN \A n \in 1..MaxFormatLen : regex_match(FieldText(n), fragment)
    ELSE \A text \in {Repeat(n, group[1]) : n \in 0..Len(group) + 1}
                        \cup {Repeat(Len(group), "x"), Repeat(Len(group), "\t")} :
            regex_match(text, fragment) <=> text = group

\* C18: after parse() the groups are the maximal runs of identical characters
\* of the format in order, with one fragment per group; the fragment of n
\* letters L, T, A, C or B matches a field of exactly n characters, the
\* fragment of a run of D matches a data field of any width, and the fragment
\* of a run of any other character matches that character repeated n times
\* and no other text.
C18_GroupsAndFragments ==
    fp.status # "none" =>
        /\ GroupsAreMaximalRuns
        /\ \A k \in 1..Len(fp.groups) : FragmentMeansGroup(fp.groups[k], fp.fragments[k])

\* C19: the constructor throws std::invalid_argument exactly for the empty
\* format; then no object exists and nothing is parsed; every other format
\* gives an object.
C19_EmptyFormatRejected ==
    fp.called =>
        /\ (fp.thrown = "std::invalid_argument") <=> (fp.format = <<>>)
        /\ fp.thrown # "none" => ~fp.constructed /\ fp.status = "none" /\ fp.groups = <<>>
        /\ fp.format # <<>> => fp.constructed /\ fp.thrown = "none"

C19_Witness ==
    /\ fp.called
    /\ fp.format = <<>>
    /\ fp.thrown = "std::invalid_argument"
    /\ ~fp.constructed

(***************************************************************************)
(* Byte order reversal (SpecConvert).                                      *)
(***************************************************************************)
\* The bytes of a value, the most significant first.
BytesOf(width, x) ==
    IF width = 16 THEN <<x \div 256, x % 256>>
    ELSE <<x[1] \div 256, x[1] % 256, x[2] \div 256, x[2] % 256>>

Reversed(bytes) == [i \in 1..Len(bytes) |-> bytes[Len(bytes) + 1 - i]]

\* C20: one conversion of a 16-bit or 32-bit value gives a value of the same
\* width whose bytes are those of the input in reverse order (0xAABBCCDD
\* gives 0xDDCCBBAA), and two conversions give the input again.
C20_ByteReversal ==
    /\ \A i \in 1..Len(BytesOf(cv.width, cv.value)) : BytesOf(cv.width, cv.value)[i] \in 0..255
    /\ cv.count = 1 => BytesOf(cv.width, cv.value) = Reversed(BytesOf(cv.width, cv.input))
    /\ cv.count = 2 => cv.value = cv.input
    /\ cv.count = 1 /\ cv.width = 32 /\ cv.input = <<43707, 52445>> => cv.value = <<56780, 48042>>

C20_Witness ==
    /\ cv.width = 32
    /\ cv.count = 1
    /\ cv.input = <<43707, 52445>>
    /\ cv.value = <<56780, 48042>>

(***************************************************************************)
(* Record codec (SpecCodec).                                               *)
(***************************************************************************)
\* The line of docs/README.rst for "Hello HEX world!" at 0x1000.
HelloLine ==
    <<"S", "1", "1", "3", "1", "0", "0", "0", "4", "8", "6", "5", "6", "C", "6", "C", "6", "F",
      "2", "0", "4", "8", "4", "5", "5", "8", "2", "0", "7", "7", "6", "F", "7", "2", "6", "C",
      "6", "4", "2", "1", "7", "A">>

\* The record that was encoded comes back from decode.
RecordRoundTrip ==
    rc.op = "decode" /\ Fits(rc.record, rc.format) =>
        /\ rc.decoded = [error |-> "none", type |-> rc.record.type,
                         address |-> rc.record.address, data |-> rc.record.data]
        /\ rc.record = [type |-> 1, address |-> 4096, data |-> SubSeq(HelloRecord, 4, 19)]
              => rc.line = HelloLine

\* No section of the image begins where another ends.
NoAdjacentSections(sections) ==
    \A i, j \in 1..Len(sections) : SectionEnd(sections[i]) # sections[j].start_address

C22_JoinInvariant ==
    img.allJoin =>
        /\ NoAdjacentSections(img.sections)
        /\ \A i \in 1..Len(img.sections) - 1 :
              SectionEnd(img.sections[i]) < img.sections[i + 1].start_address
        /\ img.count = 2 /\ img.error = "none"
              /\ img.arg[1] \in {Section(256, [i \in 1..8 |-> i]), Section(264, [i \in 1..8 |-> i + 8])}
              /\ img.before \in {<<Section(256, [i \in 1..8 |-> i])>>,
                                 <<Section(264, [i \in 1..8 |-> i + 8])>>}
              /\ img.before # <<img.arg[1]>>
              => img.sections = <<Section(256, [i \in 1..16 |-> i])>>

C22_Witness ==
    /\ img.allJoin
    /\ img.count = 3
    /\ img.error = "none"
    /\ Len(img.before) = 2
    /\ Len(img.sections) = 1
    /\ img.arg[1].start_address = 258

C23_WitnessNoJoin ==
    /\ img.op = "insert"
    /\ img.error = "OverlapError"
    /\ ~img.arg[2]
    /\ img.sections = img.before

(***************************************************************************)
(* Typed access (SpecNumeric).                                             *)
(***************************************************************************)
\* C24: a uint32 written at an offset inside the section and read at the same
\* offset comes back unchanged if read in the byte order of the write and
\* with its four bytes reversed if read in the other byte order (0x10203040
\* written big-endian reads 0x40302010 little-endian); neither call fails.
C24_EndiannessPerCall ==
    img.op = "read_numeric" /\ img.before[2][1] = img.arg[1]
                            /\ img.arg[1] + 4 <= NumericSectionLen =>
        /\ img.before[3] = "none"
        /\ img.error = "none"
        /\ img.arg[2] = img.before[2][3] => img.value = img.before[2][2]
        /\ img.arg[2] # img.before[2][3]
              => BytesOf(32, img.value) = Reversed(BytesOf(32, img.before[2][2]))
        /\ img.before[2][2] = <<4128, 12352>> /\ img.before[2][3] = "big" /\ img.arg[2] = "little"
              => img.value = <<16432, 8208>>

C24_Witness ==
    /\ img.op = "read_numeric"
    /\ img.before[2] = <<4, <<4128, 12352>>, "big">>
    /\ img.arg = <<4, "little">>
    /\ img.value = <<16432, 8208>>
    /\ img.sections[1].data = <<0, 0, 0, 0, 16, 32, 48, 64>>

(***************************************************************************)
(* ElfIo_Init on an instance that is not open (Spec).                      *)
(***************************************************************************)
\* C25: an ElfIo_Init that returns an error on an instance that was not open
\* leaves it closed: file_opened is false, no stream and no block more than
\* before are held, and the next ElfIo_Init is not rejected as ELFIO_E_STATE.
C25_FailedInitClosed ==
    [][op' = "ElfIo_Init" /\ ret' \notin {"ELFIO_E_OK", "none"} /\ ~opened
          /\ ~(str.guard = SizeofElfIoStruct /\ str.file_opened = TRUE)
          => /\ str'.file_opened = FALSE
             /\ streams' = streams
             /\ heap' = heap
             /\ InitPrecheck(str', 1, ELFIO_READ) = "pass"]_vars

\* C26: ElfIo_Init returns ELFIO_E_STATE only on an instance that an earlier
\* ElfIo_Init opened and no ElfIo_Deinit has closed since; the first
\* ElfIo_Init on an instance never returns it, whatever the memory of the
\* instance held.
C26_StateOnlyIfOpened ==
    [][op' = "ElfIo_Init" /\ ret' = "ELFIO_E_STATE" => opened]_vars

(***************************************************************************)
(* Termination of TxtIo_ScanFile (SpecScanFair).                           *)
(***************************************************************************)
\* C27: a scan that has begun returns (or the program has been ended by a
\* fault of the callout), also when a read from the stream fails before the
\* end of the file.
C27_ScanReturns == (txt.pc = "loop") ~> (txt.pc = "idle" \/ txt.fault # "none")

\* C28: every read of a table of names uses an index inside the table,
\* whatever the field value: e_machine 0..82 selects entry e_machine + 1 of
\* the machine names and every other value entry 0, "Unknown machine."; a
\* section type 0..11 selects its entry of SectionTypes, the four range
\* markers their names, and every other value "UNKNOWN".
C28_LookupsInsideTables ==
    \A i \in DOMAIN nm.lookups :
        LET l == nm.lookups[i] IN
        /\ l.index \in 0..(l.size - 1)
        /\ l.name # "?"
        /\ l.table = "Elf_MachineNames" =>
              IF l.field \in 0..82
              THEN l.index = l.field + 1
              ELSE l.index = 0 /\ l.name = "Unknown machine."
        /\ l.table = "SectionTypes" => l.field[1] = 0 /\ l.field[2] \in 0..11 /\ l.index = l.field[2]
        /\ l.table = "Others" =>
              /\ ~(l.field[1] = 0 /\ l.field[2] \in 0..11)
              /\ l.name = CASE l.field = <<28672, 0>> -> "LOPROC"
                            [] l.field = <<32767, 65535>> -> "HIPROC"
                            [] l.field = <<32768, 0>> -> "LOUSER"
                            [] l.field = <<65535, 65535>> -> "HIUSER"
                            [] OTHER -> "UNKNOWN"

\* The header report of a file whose e_machine is the last one with a name
\* and whose file type is the largest 16-bit value.
C28_Witness ==
    /\ nm.op = "ElfInfo_PrintHeader"
    /\ nm.lookups[1].field = 65535
    /\ nm.lookups[1].index = 0
    /\ nm.lookups[2].field = 82
    /\ nm.lookups[2].index = 83
    /\ nm.lookups[2].name = "SiTera Prism."

\* The routines of Utl.c that take a bit number.
WithBitNumber == {"Utl_BitGet", "Utl_BitSet", "Utl_BitReset", "Utl_BitToggle"}

\* The bit a routine leaves at position k, given the bit b it found there.
BitAfter(routine, b) ==
    CASE routine = "Utl_BitSet" -> 1
      [] routine = "Utl_BitReset" -> 0
      [] routine = "Utl_BitToggle" -> 1 - b

\* For a bit number inside the word: the routine tests or changes bit num and
\* no other bit.
ExactlyBitNum ==
    IF utl.op = "Utl_BitGet"
    THEN utl.result = (Bit(utl.w, utl.num) = 1)
    ELSE \A k \in 0..15 :
            Bit(utl.result, k) =
                IF k = utl.num THEN BitAfter(utl.op, Bit(utl.w, k)) ELSE Bit(utl.w, k)

\* C29: for every word w and every bit number num of 0..255 the four
\* routines read PowerOfTwoTab16 inside its sixteen entries, and for num of
\* 0..15 each tests or changes exactly bit num of w.
C29_BitRoutinesInsideTable ==
    utl.op \in WithBitNumber =>
        /\ utl.index \in 0..15
        /\ utl.num \in 0..15 => ExactlyBitNum

\* The second half of C29 alone: bit numbers 0..15.
C29_ExactlyBitNumBelow16 ==
    (utl.op \in WithBitNumber /\ utl.num \in 0..15) => ExactlyBitNum

\* The value of the most and of the least significant set bit of a word.
HighestBitValue(w) ==
    IF w = 0 THEN 0 ELSE 2 ^ (CHOOSE k \in 0..15 : 2 ^ k <= w /\ w < 2 ^ (k + 1))

LowestBitValue(w) ==
    IF w = 0 THEN 0 ELSE 2 ^ (CHOOSE k \in 0..15 : Bit(w, k) = 1 /\ \A j \in 0..(k - 1) : Bit(w, j) = 0)

\* C30: Utl_BitGetHighest and Utl_BitGetLowest give the value of the most and
\* of the least significant set bit (0 for w = 0), Utl_BitResetLowest(w) is
\* w - Utl_BitGetLowest(w), and Utl_Log2 ends after at most 15 passes with
\* floor(log2(w)) for w >= 1 and 0 for w = 0, so that Utl_BitGetHighest(w) is
\* 2 ^ Utl_Log2(w) for w >= 1.
C30_HighestLowestLog2 ==
    /\ utl.op = "Utl_BitGetHighest" => utl.result = HighestBitValue(utl.w)
    /\ utl.op = "Utl_BitGetLowest" => utl.result = LowestBitValue(utl.w)
    /\ utl.op = "Utl_BitResetLowest" => utl.result = utl.w - Utl_BitGetLowest(utl.w)
    /\ utl.op = "Utl_Log2" =>
          /\ utl.loops <= 15
          /\ utl.w = 0 => utl.result = 0
          /\ utl.w >= 1 =>
                /\ 2 ^ utl.result <= utl.w
                /\ utl.w < 2 ^ (utl.result + 1)
                /\ Utl_BitGetHighest(utl.w) = 2 ^ utl.result

\* Utl_Log2 of the largest word has made its fifteen passes.
C30_Witness ==
    /\ utl.op = "Utl_Log2"
    /\ utl.w = 65535
    /\ utl.result = 15
    /\ utl.loops = 15

====
